---- MODULE Spec2Model ----
(***************************************************************************)
(* A model of nix2sbom's package-graph engine (src/src/nix.rs,             *)
(* src/src/mirrors.rs): the graph builder get_package_graph_next, and the  *)
(* graph analytics of PackageGraph::get_stats (Spec, SpecStats);           *)
(* mirrors::translate_url called on its own (SpecMirror); and the name,    *)
(* version and purl inference of a node called on its own (SpecInfer).     *)
(*                                                                         *)
(* Representation.                                                         *)
(*  - A derivation path (a key of Derivations, a String) is a number of    *)
(*    1..NumPaths; the order of the numbers is the order of the strings,   *)
(*    which is the order BTreeSet and BTreeMap iterate in.                 *)
(*  - A String is a sequence of atoms; an atom is a run of characters that *)
(*    no operation of the program cuts.  " " and "/" are atoms.            *)
(*  - Option<T> is None or Some(v).                                        *)
(*  - A HashMap is a function; its iteration order is not fixed by the     *)
(*    program, so a loop over one is modelled for every order.             *)
(***************************************************************************)
EXTENDS Integers, Sequences, FiniteSets, TLC

\* ------------------------------------------------------------------ bounds

\* Number of derivation paths a store may mention (Spec).
NumPaths == 3

\* Number of derivations of the acyclic stores the analytics are run on
\* (SpecStats).
NumStatsPaths == 4

\* Depth of recursion the call stack holds before the process aborts.
MaxStackDepth == 8

\* ------------------------------------------------------------ Option<T>

None == [some |-> FALSE]

Some(v) == [some |-> TRUE, val |-> v]

\* ------------------------------------------------------------- Strings

SP == " "

\* HashMap<String, String>::get
EnvGet(env, key) == IF key \in DOMAIN env THEN Some(env[key]) ELSE None

\* Vec<String>::contains
VecContains(vec, s) == \E i \in 1..Len(vec) : vec[i] = s

\* str::starts_with
StartsWith(s, prefix) ==
    /\ Len(prefix) <= Len(s)
    /\ SubSeq(s, 1, Len(prefix)) = prefix

RECURSIVE SplitFrom(_, _, _, _)
SplitFrom(s, sep, cur, acc) ==
    IF s = <<>> THEN Append(acc, cur)
    ELSE IF Head(s) = sep
         THEN SplitFrom(Tail(s), sep, <<>>, Append(acc, cur))
         ELSE SplitFrom(Tail(s), sep, Append(cur, Head(s)), acc)

\* str::split(sep).collect(): the pieces between the separators, empty
\* pieces included ("" splits into [""]).
Split(s, sep) == SplitFrom(s, sep, <<>>, <<>>)

RECURSIVE JoinFrom(_, _)
JoinFrom(pieces, sep) ==
    IF pieces = <<>> THEN <<>>
    ELSE IF Len(pieces) = 1 THEN Head(pieces)
         ELSE Head(pieces) \o <<sep>> \o JoinFrom(Tail(pieces), sep)

\* All the orders a collection S may be iterated in.
Orderings(S) ==
    { f \in [1..Cardinality(S) -> S] : \A i, j \in 1..Cardinality(S) : f[i] = f[j] => i = j }

RECURSIVE SortedSeq(_)
\* The ascending order: how BTreeSet and BTreeMap iterate.
SortedSeq(S) ==
    IF S = {} THEN <<>>
    ELSE LET m == CHOOSE x \in S : \A y \in S : x <= y
         IN <<m>> \o SortedSeq(S \ {m})

\* ---------------------------------------------------------------- mirrors

\* The MIRRORS table of src/src/mirrors.rs.
MIRRORS ==
    [ hashedMirrors   |-> <<"https://tarballs.nixos.org">>,
      alsa            |-> <<"https://www.alsa-project.org", "/", "files", "/", "pub", "/">>,
      apache          |-> <<"https://dlcdn.apache.org", "/">>,
      bioc            |-> <<"http://bioc.ism.ac.jp", "/">>,
      cran            |-> <<"https://cran.r-project.org", "/", "src", "/", "contrib", "/">>,
      bitlbee         |-> <<"https://get.bitlbee.org", "/">>,
      gcc             |-> <<"https://mirror.koddos.net", "/", "gcc", "/">>,
      gnome           |-> <<"https://download.gnome.org", "/">>,
      gnu             |-> <<"https://ftp.gnu.org", "/", "pub", "/", "gnu", "/">>,
      gnupg           |-> <<"https://gnupg.org", "/", "ftp", "/", "gcrypt", "/">>,
      ibiblioPubLinux |-> <<"https://www.ibiblio.org", "/", "pub", "/", "Linux", "/">>,
      imagemagick     |-> <<"https://www.imagemagick.org", "/", "download", "/">>,
      kde             |-> <<"https://cdn.download.kde.org", "/">>,
      kernel          |-> <<"https://cdn.kernel.org", "/", "pub", "/">>,
      mysql           |-> <<"https://cdn.mysql.com", "/", "Downloads", "/">>,
      maven           |-> <<"https://repo1.maven.org", "/", "maven2", "/">>,
      mozilla         |-> <<"https://download.cdn.mozilla.net", "/", "pub", "/", "mozilla.org", "/">>,
      osdn            |-> <<"https://osdn.dl.osdn.jp", "/">>,
      postgresql      |-> <<"https://ftp.postgresql.org", "/", "pub", "/">>,
      qt              |-> <<"https://download.qt.io", "/">>,
      sageupstream    |-> <<"https://mirrors.mit.edu", "/", "sage", "/", "spkg", "/", "upstream", "/">>,
      samba           |-> <<"https://www.samba.org", "/", "ftp", "/">>,
      savannah        |-> <<"https://ftp.gnu.org", "/", "gnu", "/">>,
      sourceforge     |-> <<"https://downloads.sourceforge.net", "/">>,
      steamrt         |-> <<"https://repo.steampowered.com", "/", "steamrt", "/">>,
      tcsh            |-> <<"https://astron.com", "/", "pub", "/", "tcsh", "/">>,
      xfce            |-> <<"https://archive.xfce.org", "/">>,
      xorg            |-> <<"https://xorg.freedesktop.org", "/", "releases", "/">>,
      cpan            |-> <<"https://cpan.metacpan.org", "/">>,
      hackage         |-> <<"https://hackage.haskell.org", "/", "package", "/">>,
      luarocks        |-> <<"https://luarocks.org", "/">>,
      pypi            |-> <<"https://pypi.io", "/", "packages", "/", "source", "/">>,
      testpypi        |-> <<"https://test.pypi.io", "/", "packages", "/", "source", "/">>,
      centos          |-> <<"https://vault.centos.org", "/">>,
      debian          |-> <<"https://httpredir.debian.org", "/", "debian", "/">>,
      fedora          |-> <<"https://archives.fedoraproject.org", "/", "pub", "/", "fedora", "/">>,
      gentoo          |-> <<"https://distfiles.gentoo.org", "/">>,
      opensuse        |-> <<"https://opensuse.hro.nl", "/", "opensuse", "/", "distribution", "/">>,
      ubuntu          |-> <<"https://nl.archive.ubuntu.com", "/", "ubuntu", "/">>,
      openbsd         |-> <<"https://ftp.openbsd.org", "/", "pub", "/", "OpenBSD", "/">> ]

\* The atoms made only of the characters [0-9a-zA-Z_-]: the ones the group
\* ([0-9a-zA-Z_-]+) of MIRROR_URL_REGEX matches whole.  Every atom of the
\* class that a string of this module is made of is listed, the keys of
\* its records among them.
WordAtoms ==
    DOMAIN MIRRORS \cup
      { "-", "1", "12", "5", "9", "Cardinality", "CycloneDX", "Downloads",
        "GraphPaths", "JSON", "K", "Len", "Linux", "MaxUrlLen",
        "NOT_AN_ACTUAL_NAME", "NumGraphPaths", "NumPaths", "NumStatsPaths",
        "OpenBSD", "OutPaths", "PrettyPrint", "SPDX", "Stats", "StatsPaths",
        "XML", "YAML", "ac", "acl", "all_child_derivations", "api", "archive",
        "atoms", "attr", "autoconf", "automake", "binutils", "bison",
        "bitbucket", "bogus", "bom_ref", "broken", "build_inputs", "built",
        "bzip2", "call", "cargo", "cdn", "cdx", "children", "com", "commits",
        "component", "contrib", "count", "current_system", "cyclonedx_dumped",
        "db", "deadbeefdeadbeefdeadbeefdeadbeefdeadbeef", "dependency",
        "depends_on", "derivation", "distribution", "dl", "docker", "done",
        "download", "download_url", "download_urls", "dump_error",
        "dump_panic", "echo", "edu", "ended", "entries", "env", "err",
        "error", "exit_failure", "exit_success", "expand", "facebook",
        "fedoraproject", "fields", "files", "findutils", "flex", "format",
        "freedesktop", "ftp", "gcrypt", "gem", "generic", "get_derivations",
        "get_name", "get_packages", "get_purl", "get_version", "gettext",
        "git_urls", "gnum4", "gz", "haskell", "hello", "homepages", "host",
        "hro", "ibiblio", "id", "indent_level", "input_derivations",
        "insecure", "io", "ism", "j", "jp", "json", "json_pretty", "k", "key",
        "kind", "koddos", "layout", "legacy_nodes", "libffi", "libjxl",
        "libtool", "line", "lines", "longest_path_length", "main",
        "main_derivation", "main_err", "maven2", "max_depth", "message",
        "meta", "metacpan", "metadata", "metadata_path", "mit", "n", "name",
        "native", "native_dumped", "net", "nix", "nix_ref", "nixos",
        "nixpkgs", "nl", "no_pretty", "node", "nodes", "nodes_count", "npm",
        "npmjs", "nuget", "o1", "o2", "o3", "o4", "o5", "o6", "options",
        "org", "out", "out-paths", "out_path", "overflow", "package",
        "package_meta_count", "package_nodes", "packages", "panic",
        "panicked", "patch", "patchelf", "patches", "patches_count", "path",
        "perl", "pkg-config", "pname", "prefix", "pretty", "print",
        "print_only_purl", "print_panic", "print_stdenv", "printed", "pub",
        "purl", "purl_scope_count", "python", "query_params", "r",
        "reachable_nodes_count", "recipe_get_name", "recipe_get_version",
        "ref", "releases", "response", "returned", "returned_twice", "rev",
        "root_nodes_count", "runtime_only", "sage", "scheme", "script",
        "serialization_format", "skip", "some", "source", "source_derivation",
        "sources", "spawned", "spdx", "spdx_dumped", "spdxid", "spkg", "src",
        "stack_overflow", "stats", "stats_panic", "stdenv-linux", "stderr",
        "stderr_utf8", "stdout", "steampowered", "stream", "success", "tar",
        "texinfo", "text", "title", "transform_ok", "transformed", "unfree",
        "unknown", "unknownmirror", "unsupported", "unzip", "upstream", "url",
        "urls", "v", "val", "value", "version", "visited_children", "which",
        "x", "xml", "y", "yaml", "yml", "zlib", "zstd" }

RECURSIVE Replace(_, _, _)
\* str::replace: every occurrence of `from`, left to right, becomes `to`.
Replace(s, from, to) ==
    IF Len(s) < Len(from) \/ from = <<>> THEN s
    ELSE IF SubSeq(s, 1, Len(from)) = from
         THEN to \o Replace(SubSeq(s, Len(from) + 1, Len(s)), from, to)
         ELSE <<Head(s)>> \o Replace(Tail(s), from, to)

RECURSIVE WordRunEnd(_, _)
\* The index after the longest run of [0-9a-zA-Z_-] atoms of url from i on:
\* adjacent atoms of the class spell one longer word, which the greedy
\* ([0-9a-zA-Z_-]+) takes whole.
WordRunEnd(url, i) ==
    IF i <= Len(url) /\ url[i] \in WordAtoms THEN WordRunEnd(url, i + 1) ELSE i

\* MIRROR_URL_REGEX.captures(url), group 1: the name (the atoms that spell
\* it) of the leftmost "mirror://<name>/" of the url; the regex is not
\* anchored.
MirrorName(url) ==
    LET hits == { i \in 1..Len(url) :
                    /\ url[i] = "mirror://"
                    /\ WordRunEnd(url, i + 1) > i + 1
                    /\ WordRunEnd(url, i + 1) <= Len(url)
                    /\ url[WordRunEnd(url, i + 1)] = "/" }
    IN IF hits = {} THEN None
       ELSE LET i == CHOOSE h \in hits : \A j \in hits : h <= j
            IN Some(SubSeq(url, i + 1, WordRunEnd(url, i + 1) - 1))

\* Every way to spell a key of MIRRORS with two or more atoms of WordAtoms:
\* the atoms of a name are its characters cut somewhere, and the table is
\* looked up by the characters.
MirrorSpellings ==
    << [ key |-> "sageupstream", atoms |-> << "sage", "upstream" >> ],
       [ key |-> "xorg", atoms |-> << "x", "org" >> ] >>

\* The key of MIRRORS the atoms of mirror_name spell, None when they spell
\* no key.
MirrorKey(mirror_name) ==
    IF Len(mirror_name) = 1 /\ mirror_name[1] \in DOMAIN MIRRORS
    THEN Some(mirror_name[1])
    ELSE LET hits == { i \in 1..Len(MirrorSpellings) :
                         MirrorSpellings[i].atoms = mirror_name }
         IN IF hits = {} THEN None
            ELSE Some(MirrorSpellings[CHOOSE i \in hits : TRUE].key)

\* MIRRORS.get(mirror_name)
MirrorsGet(mirror_name) ==
    IF MirrorKey(mirror_name).some
    THEN Some(MIRRORS[MirrorKey(mirror_name).val])
    ELSE None

RECURSIVE ReplaceSpelled(_, _, _, _)
\* url.replace(&format!("mirror://{}/", mirror_name), mirror_url): every
\* "mirror://<key>/" of the url is replaced, however the atoms of the url
\* spell the key; i runs over MirrorSpellings.
ReplaceSpelled(url, key, to, i) ==
    IF i > Len(MirrorSpellings) THEN url
    ELSE IF MirrorSpellings[i].key = key
         THEN ReplaceSpelled(
                  Replace(url, <<"mirror://">> \o MirrorSpellings[i].atoms \o <<"/">>, to),
                  key, to, i + 1)
         ELSE ReplaceSpelled(url, key, to, i + 1)

\* The part of translate_url after the regex ran: mirror_name is its first
\* capture group, None when the regex did not match.
TranslateCaptured(url, mirror_name) ==
    IF ~mirror_name.some
    THEN [panicked |-> FALSE, url |-> url]
    ELSE IF MirrorsGet(mirror_name.val).some
         THEN [panicked |-> FALSE,
               url |-> ReplaceSpelled(
                           Replace(url, <<"mirror://", MirrorKey(mirror_name.val).val, "/">>,
                                   MirrorsGet(mirror_name.val).val),
                           MirrorKey(mirror_name.val).val,
                           MirrorsGet(mirror_name.val).val, 1)]
         ELSE [panicked |-> TRUE, url |-> url]

\* mirrors::translate_url.  panicked: the panic on an unknown mirror name.
translate_url(url) ==
    IF ~StartsWith(url, <<"mirror://">>)
    THEN [panicked |-> FALSE, url |-> url]
    ELSE TranslateCaptured(url, MirrorName(url))

\* ---------------------------------------------------------- Derivation

\* The derivation paths a store of Spec may mention.
Paths == 1..NumPaths

\* The store path of the `out` output of the derivation at path p.
OutAtom == <<"o1", "o2", "o3", "o4", "o5", "o6">>

OutPath(p) == <<"/", OutAtom[p]>>

\* struct Derivation: the fields the graph builder and the analytics read.
\* input_derivations holds the keys of the inputDrvs map.
Derivation(inputs, env) == [input_derivations |-> inputs, env |-> env]

\* A faulty get_patches: only the first entry of the list is returned.
get_patches_FirstOnly(derivation) ==
    LET patches == EnvGet(derivation.env, "patches")
    IN IF patches.some THEN <<Head(Split(patches.val, SP))>> ELSE <<>>

\* Derivation::get_patches: the `patches` value cut at every " ".
get_patches(derivation) ==
    LET patches == EnvGet(derivation.env, "patches")
    IN IF patches.some THEN Split(patches.val, SP) ELSE <<>>

\* `response.push(crate::mirrors::translate_url(url))`: the translated url t
\* goes in front of the urls pushed after it.  panicked: a translation did.
PushUrl(t, rest) ==
    IF t.panicked \/ rest.panicked THEN [panicked |-> TRUE, urls |-> <<>>]
    ELSE [panicked |-> FALSE, urls |-> <<t.url>> \o rest.urls]

RECURSIVE TranslateAll(_)
\* One `for url in ...split(" ")` loop of get_urls, over the pieces.
TranslateAll(pieces) ==
    IF pieces = <<>> THEN [panicked |-> FALSE, urls |-> <<>>]
    ELSE PushUrl(translate_url(Head(pieces)), TranslateAll(Tail(pieces)))

\* `if let Some(..) = self.env.get(..)` and the loop over its pieces.
UrlsOfEnv(value) ==
    IF value.some THEN TranslateAll(Split(value.val, SP))
    ELSE [panicked |-> FALSE, urls |-> <<>>]

\* The urls of the `url` loop, then those of the `urls` loop.
ExtendUrls(a, b) ==
    IF a.panicked \/ b.panicked THEN [panicked |-> TRUE, urls |-> <<>>]
    ELSE [panicked |-> FALSE, urls |-> a.urls \o b.urls]

\* Derivation::get_urls: the pieces of `url`, then those of `urls`, each
\* translated.
get_urls(derivation) ==
    ExtendUrls(UrlsOfEnv(EnvGet(derivation.env, "url")),
               UrlsOfEnv(EnvGet(derivation.env, "urls")))

\* ------------------------------------------------- get_package_graph_next

\* struct PackageNode, as get_package_graph_next constructs it.
PackageNode(derivation, children, patches) ==
    [ package         |-> None,
      main_derivation |-> derivation,
      sources         |-> <<>>,
      patches         |-> patches,
      children        |-> children ]

\* The accumulator of the loop over one derivation's input_derivations.
EmptyEdges(all_child) ==
    [ children |-> {}, patches |-> {}, all_child_derivations |-> all_child,
      panicked |-> FALSE ]

\* The test of lines 1228-1229: the input has an `out` and the node's
\* patches list contains it.
IsPatchInput(current_node_patches, child_derivation) ==
    LET child_derivation_out_path == EnvGet(child_derivation.env, "out")
    IN /\ child_derivation_out_path.some
       /\ VecContains(current_node_patches, child_derivation_out_path.val)

\* A faulty ClassifyInput: a patch is not entered in all_child_derivations.
ClassifyInput_PatchUnmarked(acc, input_derivation_path, child_derivation, current_node_patches) ==
    IF IsPatchInput(current_node_patches, child_derivation)
    THEN [acc EXCEPT !.patches = @ \cup {input_derivation_path}]
    ELSE [acc EXCEPT !.children = @ \cup {input_derivation_path},
                     !.all_child_derivations = @ \cup {input_derivation_path}]

\* A faulty ClassifyInput: the `continue` after a patch is missing.
ClassifyInput_NoContinue(acc, input_derivation_path, child_derivation, current_node_patches) ==
    IF IsPatchInput(current_node_patches, child_derivation)
    THEN [acc EXCEPT !.patches = @ \cup {input_derivation_path},
                     !.children = @ \cup {input_derivation_path},
                     !.all_child_derivations = @ \cup {input_derivation_path}]
    ELSE [acc EXCEPT !.children = @ \cup {input_derivation_path},
                     !.all_child_derivations = @ \cup {input_derivation_path}]

\* A faulty ClassifyInput: an input some earlier node already claimed is
\* skipped, so the edges depend on which node the store yields first.
ClassifyInput_SkipsClaimed(acc, input_derivation_path, child_derivation, current_node_patches) ==
    IF input_derivation_path \in acc.all_child_derivations THEN acc
    ELSE IF IsPatchInput(current_node_patches, child_derivation)
    THEN [acc EXCEPT !.patches = @ \cup {input_derivation_path},
                     !.all_child_derivations = @ \cup {input_derivation_path}]
    ELSE [acc EXCEPT !.children = @ \cup {input_derivation_path},
                     !.all_child_derivations = @ \cup {input_derivation_path}]

\* One iteration of the loop over input_derivations.keys(), the input in the
\* store.
ClassifyInput(acc, input_derivation_path, child_derivation, current_node_patches) ==
    IF IsPatchInput(current_node_patches, child_derivation)
    THEN [acc EXCEPT !.patches = @ \cup {input_derivation_path},
                     !.all_child_derivations = @ \cup {input_derivation_path}]
    ELSE [acc EXCEPT !.children = @ \cup {input_derivation_path},
                     !.all_child_derivations = @ \cup {input_derivation_path}]

RECURSIVE ClassifyInputs(_, _, _, _)
\* The loop over input_derivations.keys(), in the order ks.  The unwrap of
\* derivations.get(..) panics on an input that is not in the store.
ClassifyInputs(ks, derivs, current_node_patches, acc) ==
    IF ks = <<>> THEN acc
    ELSE IF Head(ks) \notin DOMAIN derivs
         THEN [acc EXCEPT !.panicked = TRUE]
         ELSE ClassifyInputs(Tail(ks), derivs, current_node_patches,
                  ClassifyInput(acc, Head(ks), derivs[Head(ks)], current_node_patches))

\* A faulty RootNodes: the loop stops at the first root it finds.
RootNodes_FirstOnly(ks, all_child) ==
    IF \E i \in 1..Len(ks) : ks[i] \notin all_child
    THEN {ks[CHOOSE i \in 1..Len(ks) :
                /\ ks[i] \notin all_child
                /\ \A j \in 1..(i - 1) : ks[j] \in all_child]}
    ELSE {}

RECURSIVE RootNodes(_, _)
\* The second loop of get_package_graph_next, in the order ks: the paths that
\* all_child_derivations does not hold.
RootNodes(ks, all_child) ==
    IF ks = <<>> THEN {}
    ELSE IF Head(ks) \in all_child
         THEN RootNodes(Tail(ks), all_child)
         ELSE {Head(ks)} \cup RootNodes(Tail(ks), all_child)

\* -------------------------------------------------------------- PackageNode

\* The table of PackageNode::get_purl, lines 794-823: prefix, scheme.
SchemeTable ==
    << [prefix |-> <<"https://crates.io">>,                        scheme |-> "cargo"],
       [prefix |-> <<"https://www.cpan.org", "/">>,                scheme |-> "cpan"],
       [prefix |-> <<"https://rubygems.org">>,                     scheme |-> "gem"],
       [prefix |-> <<"https://hackage.haskell.org", "/">>,         scheme |-> "hackage"],
       [prefix |-> <<"https://repo.maven.apache.org", "/", "maven2">>, scheme |-> "maven"],
       [prefix |-> <<"https://registry.npmjs.org">>,               scheme |-> "npm"],
       [prefix |-> <<"https://www.nuget.org">>,                    scheme |-> "nuget"],
       [prefix |-> <<"https://bitbucket.org">>,                    scheme |-> "bitbucket"],
       [prefix |-> <<"https://hub.docker.com">>,                   scheme |-> "docker"],
       [prefix |-> <<"https://pypi.org">>,                         scheme |-> "pypi"],
       [prefix |-> <<"https://pypi.python.org">>,                  scheme |-> "pypi"] >>

RECURSIVE SchemeFrom(_, _, _)
\* The `if url.starts_with(..) { scheme = .. }` statements from the i-th on,
\* run one after the other: a later match overwrites an earlier one.
SchemeFrom(url, i, scheme) ==
    IF i > Len(SchemeTable) THEN scheme
    ELSE SchemeFrom(url, i + 1,
             IF StartsWith(url, SchemeTable[i].prefix) THEN SchemeTable[i].scheme ELSE scheme)

\* A faulty SchemeOfUrls: the last url decides, not the first.
SchemeOfUrls_LastUrl(urls) ==
    IF urls.panicked THEN [panicked |-> TRUE, scheme |-> "generic"]
    ELSE IF urls.urls = <<>> THEN [panicked |-> FALSE, scheme |-> "generic"]
    ELSE [panicked |-> FALSE,
          scheme |-> SchemeFrom(urls.urls[Len(urls.urls)], 1, "generic")]

\* The scheme of PackageNode::get_purl (lines 782-823): "generic" without a
\* url, else what the table makes of the first url.  panicked: get_urls did.
SchemeOfUrls(urls) ==
    IF urls.panicked THEN [panicked |-> TRUE, scheme |-> "generic"]
    ELSE IF urls.urls = <<>> THEN [panicked |-> FALSE, scheme |-> "generic"]
    ELSE [panicked |-> FALSE, scheme |-> SchemeFrom(urls.urls[1], 1, "generic")]


\* A faulty ReachableChildren: the traversal follows the patches too.
ReachableChildren_WithPatches(node) == SortedSeq(node.children \cup node.patches)

\* `for child_derivation_path in &self.children` of get_reachable_nodes_count.
ReachableChildren(node) == SortedSeq(node.children)

\* A faulty MarkVisited: the visited set forgets what the recursion saw.
MarkVisited_Forgets(visited_children, child_derivation_path) ==
    {}

\* `visited_children.insert(child_derivation_path.to_string())`
MarkVisited(visited_children, child_derivation_path) ==
    visited_children \cup {child_derivation_path}

RECURSIVE get_reachable_nodes_count(_, _, _, _)
RECURSIVE ReachableLoop(_, _, _, _)
\* The loop of get_reachable_nodes_count over self.children (a BTreeSet: in
\* ascending order), from the children cs on.
ReachableLoop(cs, package_nodes, acc, depth) ==
    IF cs = <<>> \/ acc.overflow THEN acc
    ELSE LET child_derivation_path == Head(cs)
         IN IF child_derivation_path \in acc.visited_children
            THEN ReachableLoop(Tail(cs), package_nodes, acc, depth)
            ELSE IF child_derivation_path \notin DOMAIN package_nodes
            THEN ReachableLoop(Tail(cs), package_nodes, acc, depth)
            ELSE LET r == get_reachable_nodes_count(child_derivation_path, package_nodes,
                                                    acc.visited_children, depth + 1)
                 IN ReachableLoop(Tail(cs), package_nodes,
                        [ count            |-> acc.count + r.count,
                          visited_children |-> MarkVisited(r.visited_children,
                                                           child_derivation_path),
                          overflow         |-> r.overflow ],
                        depth)

\* PackageNode::get_reachable_nodes_count of the node at `path`, called at
\* recursion depth `depth`.  overflow: the recursion outgrew the stack.
get_reachable_nodes_count(path, package_nodes, visited_children, depth) ==
    IF depth > MaxStackDepth
    THEN [count |-> 0, visited_children |-> visited_children, overflow |-> TRUE]
    ELSE ReachableLoop(ReachableChildren(package_nodes[path]), package_nodes,
             [count |-> 1, visited_children |-> visited_children, overflow |-> FALSE],
             depth)

\* A faulty Longer: the first child's path stays, whatever comes after it.
Longer_KeepsFirst(path, longest_path) ==
    IF longest_path = <<>> THEN path ELSE longest_path

\* `if path.len() > longest_path.len() { longest_path = path }`
Longer(path, longest_path) ==
    IF Len(path) > Len(longest_path) THEN path ELSE longest_path

\* A faulty Memoize: the table remembers the child, not the path below it.
Memoize_ChildOnly(visited_children, child_derivation_path, path) ==
    (child_derivation_path :> <<child_derivation_path>>) @@ visited_children

\* `visited_children.insert(child_derivation_path.to_string(), path.to_vec())`
Memoize(visited_children, child_derivation_path, path) ==
    (child_derivation_path :> path) @@ visited_children

RECURSIVE get_longest_path(_, _, _, _)
RECURSIVE LongestLoop(_, _, _, _)
\* The loop of get_longest_path over self.children, from the children cs on.
\* panicked: the unwrap of package_nodes.get(..) on a child that is no node.
LongestLoop(cs, package_nodes, acc, depth) ==
    IF cs = <<>> \/ acc.overflow \/ acc.panicked THEN acc
    ELSE LET child_derivation_path == Head(cs)
             r == IF child_derivation_path \in DOMAIN acc.visited_children
                  THEN [ path |-> acc.visited_children[child_derivation_path],
                         visited_children |-> acc.visited_children,
                         overflow |-> FALSE, panicked |-> FALSE ]
                  ELSE IF child_derivation_path \notin DOMAIN package_nodes
                  THEN [ path |-> <<>>, visited_children |-> acc.visited_children,
                         overflow |-> FALSE, panicked |-> TRUE ]
                  ELSE get_longest_path(child_derivation_path, package_nodes,
                                        acc.visited_children, depth + 1)
         IN LongestLoop(Tail(cs), package_nodes,
                [ path             |-> Longer(r.path, acc.path),
                  visited_children |-> Memoize(r.visited_children, child_derivation_path,
                                               r.path),
                  overflow         |-> r.overflow,
                  panicked         |-> r.panicked ],
                depth)

\* PackageNode::get_longest_path of the node at `name`: the node, then the
\* longest of its children's paths.  visited_children is the memo table.
get_longest_path(name, package_nodes, visited_children, depth) ==
    IF depth > MaxStackDepth
    THEN [ path |-> <<>>, visited_children |-> visited_children,
           overflow |-> TRUE, panicked |-> FALSE ]
    ELSE LET r == LongestLoop(SortedSeq(package_nodes[name].children), package_nodes,
                      [ path |-> <<>>, visited_children |-> visited_children,
                        overflow |-> FALSE, panicked |-> FALSE ],
                      depth)
         IN [r EXCEPT !.path = <<name>> \o r.path]

\* ------------------------------------------- name, version and purl inference

\* str::contains: sub occurs in s (the empty string occurs in every string).
Contains(s, sub) ==
    \E i \in 0..(Len(s) - Len(sub)) : SubSeq(s, i + 1, i + Len(sub)) = sub

\* The atoms that hold a "/" besides the atom "/" itself, each with what
\* follows its last "/".
AfterLastSlash ==
       "http://bioc.ism.ac.jp" :> "bioc.ism.ac.jp"
    @@ "https://archive.xfce.org" :> "archive.xfce.org"
    @@ "https://archives.fedoraproject.org" :> "archives.fedoraproject.org"
    @@ "https://astron.com" :> "astron.com"
    @@ "https://bitbucket.org" :> "bitbucket.org"
    @@ "https://cdn.download.kde.org" :> "cdn.download.kde.org"
    @@ "https://cdn.kernel.org" :> "cdn.kernel.org"
    @@ "https://cdn.mysql.com" :> "cdn.mysql.com"
    @@ "https://cpan.metacpan.org" :> "cpan.metacpan.org"
    @@ "https://cran.r-project.org" :> "cran.r-project.org"
    @@ "https://crates.io" :> "crates.io"
    @@ "https://distfiles.gentoo.org" :> "distfiles.gentoo.org"
    @@ "https://dlcdn.apache.org" :> "dlcdn.apache.org"
    @@ "https://download.cdn.mozilla.net" :> "download.cdn.mozilla.net"
    @@ "https://download.gnome.org" :> "download.gnome.org"
    @@ "https://download.qt.io" :> "download.qt.io"
    @@ "https://downloads.sourceforge.net" :> "downloads.sourceforge.net"
    @@ "https://example.org" :> "example.org"
    @@ "https://ftp.gnu.org" :> "ftp.gnu.org"
    @@ "https://ftp.openbsd.org" :> "ftp.openbsd.org"
    @@ "https://ftp.postgresql.org" :> "ftp.postgresql.org"
    @@ "https://get.bitlbee.org" :> "get.bitlbee.org"
    @@ "https://github.com" :> "github.com"
    @@ "https://gnupg.org" :> "gnupg.org"
    @@ "https://hackage.haskell.org" :> "hackage.haskell.org"
    @@ "https://httpredir.debian.org" :> "httpredir.debian.org"
    @@ "https://hub.docker.com" :> "hub.docker.com"
    @@ "https://luarocks.org" :> "luarocks.org"
    @@ "https://mirror.koddos.net" :> "mirror.koddos.net"
    @@ "https://mirrors.mit.edu" :> "mirrors.mit.edu"
    @@ "https://nl.archive.ubuntu.com" :> "nl.archive.ubuntu.com"
    @@ "https://opensuse.hro.nl" :> "opensuse.hro.nl"
    @@ "https://osdn.dl.osdn.jp" :> "osdn.dl.osdn.jp"
    @@ "https://pypi.io" :> "pypi.io"
    @@ "https://pypi.org" :> "pypi.org"
    @@ "https://pypi.python.org" :> "pypi.python.org"
    @@ "https://registry.npmjs.org" :> "registry.npmjs.org"
    @@ "https://repo.maven.apache.org" :> "repo.maven.apache.org"
    @@ "https://repo.steampowered.com" :> "repo.steampowered.com"
    @@ "https://repo1.maven.org" :> "repo1.maven.org"
    @@ "https://rubygems.org" :> "rubygems.org"
    @@ "https://tarballs.nixos.org" :> "tarballs.nixos.org"
    @@ "https://test.pypi.io" :> "test.pypi.io"
    @@ "https://vault.centos.org" :> "vault.centos.org"
    @@ "https://www.alsa-project.org" :> "www.alsa-project.org"
    @@ "https://www.cpan.org" :> "www.cpan.org"
    @@ "https://www.ibiblio.org" :> "www.ibiblio.org"
    @@ "https://www.imagemagick.org" :> "www.imagemagick.org"
    @@ "https://www.nuget.org" :> "www.nuget.org"
    @@ "https://www.samba.org" :> "www.samba.org"
    @@ "https://xorg.freedesktop.org" :> "xorg.freedesktop.org"
    @@ "mirror://" :> ""

\* archive_url.split("/").last().unwrap(): what follows the last "/" of the
\* url, be that "/" an atom or inside one.
LastSegment(url) ==
    LET cuts == { i \in 1..Len(url) : url[i] = "/" \/ url[i] \in DOMAIN AfterLastSlash }
    IN IF cuts = {} THEN url
       ELSE LET i == CHOOSE c \in cuts : \A d \in cuts : d <= c
            IN (IF url[i] = "/" \/ AfterLastSlash[url[i]] = "" THEN <<>>
                ELSE <<AfterLastSlash[url[i]]>>)
               \o SubSeq(url, i + 1, Len(url))

\* The atoms SEMVER_REGEX matches: digits, any character, digits, any
\* character, digits.  No other atom of a file name holds a digit.
SemverAtoms == {"1.5.5", "2.12.1"}

\* The atoms that are the 40 hexadecimal digits of a commit.
ShaAtoms == {"deadbeefdeadbeefdeadbeefdeadbeefdeadbeef"}

\* The first atom of the file name that is in the set atoms, if any.
FirstAtomIn(filename, atoms) ==
    LET hits == { i \in 1..Len(filename) : filename[i] \in atoms }
    IN IF hits = {} THEN None
       ELSE Some(<<filename[CHOOSE i \in hits : \A j \in hits : i <= j]>>)

\* utils::get_semver_from_archive_url: the first match of SEMVER_REGEX in the
\* file name of the url, its group 1.
get_semver_from_archive_url(archive_url) ==
    FirstAtomIn(LastSegment(archive_url), SemverAtoms)

\* utils::get_git_sha_from_archive_url, which the sources at hand call but do
\* not hold: a commit SHA parsed from the file name of the url.
get_git_sha_from_archive_url(archive_url) ==
    FirstAtomIn(LastSegment(archive_url), ShaAtoms)

\* utils::get_project_name_from_generic_url, which the sources at hand call
\* but do not hold: the project of a url of a known host, here the hosts of
\* GITHUB_PROJECT_REGEX ("https://github.com/<owner>/<project>") and of
\* GNU_PROJECT_REGEX ("https://ftp.gnu.org/pub/gnu/<project>").
get_project_name_from_generic_url(generic_url) ==
    IF /\ Len(generic_url) >= 5
       /\ SubSeq(generic_url, 1, 2) = <<"https://github.com", "/">>
       /\ generic_url[3] \in WordAtoms
       /\ generic_url[4] = "/"
       /\ generic_url[5] \in WordAtoms
    THEN Some(<<generic_url[5]>>)
    ELSE IF /\ Len(generic_url) >= 7
            /\ SubSeq(generic_url, 1, 6) = <<"https://ftp.gnu.org", "/", "pub", "/", "gnu", "/">>
            /\ generic_url[7] \in WordAtoms
         THEN Some(<<generic_url[7]>>)
         ELSE None

\* utils::get_project_name_from_archive_url, which the sources at hand call
\* but do not hold: the <name> of a file name "<name>-<version>.<ext>".
get_project_name_from_archive_url(archive_url) ==
    LET filename == LastSegment(archive_url)
    IN IF /\ Len(filename) >= 3
          /\ filename[1] \in WordAtoms
          /\ filename[2] = "-"
          /\ filename[3] \in SemverAtoms
       THEN Some(<<filename[1]>>)
       ELSE None

\* Derivation::get_version_from_env: `rev` without one leading "v", else
\* `version`.
get_version_from_env(derivation) ==
    IF "rev" \in DOMAIN derivation.env
    THEN IF StartsWith(derivation.env.rev, <<"v">>)
         THEN Some(Tail(derivation.env.rev))
         ELSE Some(derivation.env.rev)
    ELSE EnvGet(derivation.env, "version")

\* The body of `for url in self.get_urls()` of Derivation::get_name.
ProjectNameOfUrl(generic, archive) ==
    IF generic.some THEN generic ELSE archive

RECURSIVE ProjectNameOfUrls(_)
\* `for url in self.get_urls()` of Derivation::get_name: the first url that
\* yields a project name decides.
ProjectNameOfUrls(urls) ==
    IF urls = <<>> THEN None
    ELSE IF ProjectNameOfUrl(get_project_name_from_generic_url(Head(urls)),
                             get_project_name_from_archive_url(Head(urls))).some
         THEN ProjectNameOfUrl(get_project_name_from_generic_url(Head(urls)),
                               get_project_name_from_archive_url(Head(urls)))
         ELSE ProjectNameOfUrls(Tail(urls))

\* The end of Derivation::get_name (lines 231-240), urls being what get_urls
\* returned.  panicked: get_urls did.
NameFromUrls(urls) ==
    IF urls.panicked THEN [panicked |-> TRUE, name |-> None]
    ELSE [panicked |-> FALSE, name |-> ProjectNameOfUrls(urls.urls)]

\* The `if let Some(name) = self.env.get("name")` block of
\* Derivation::get_name (lines 219-229): version is what
\* get_version_from_env returned.  None: the block returned nothing.
NameFromEnvName(name, version) ==
    IF version.some /\ Contains(name, version.val)
    THEN Some(Replace(name, <<"-">> \o version.val, <<>>))
    ELSE IF name # <<"source">> THEN Some(name) ELSE None

\* Derivation::get_name.  panicked: get_urls did, on an unknown mirror.
Derivation_get_name(derivation) ==
    IF "pname" \in DOMAIN derivation.env
    THEN [panicked |-> FALSE, name |-> Some(derivation.env.pname)]
    ELSE IF /\ "name" \in DOMAIN derivation.env
            /\ NameFromEnvName(derivation.env.name, get_version_from_env(derivation)).some
         THEN [panicked |-> FALSE,
               name |-> NameFromEnvName(derivation.env.name, get_version_from_env(derivation))]
         ELSE NameFromUrls(get_urls(derivation))

\* The body of `for url in self.get_urls()` of Derivation::get_version.
VersionOfUrl(commit_sha, version) ==
    IF commit_sha.some THEN commit_sha ELSE version

RECURSIVE VersionOfUrls(_)
\* `for url in self.get_urls()` of Derivation::get_version.
VersionOfUrls(urls) ==
    IF urls = <<>> THEN None
    ELSE IF VersionOfUrl(get_git_sha_from_archive_url(Head(urls)),
                         get_semver_from_archive_url(Head(urls))).some
         THEN VersionOfUrl(get_git_sha_from_archive_url(Head(urls)),
                           get_semver_from_archive_url(Head(urls)))
         ELSE VersionOfUrls(Tail(urls))

\* The end of Derivation::get_version (lines 331-343): the `name` without
\* the prefix "<pname>-".
VersionFromName(derivation) ==
    IF "pname" \notin DOMAIN derivation.env THEN None
    ELSE IF "name" \notin DOMAIN derivation.env THEN None
    ELSE IF Contains(derivation.env.name, derivation.env.pname)
         THEN Some(Replace(derivation.env.name, derivation.env.pname \o <<"-">>, <<>>))
         ELSE None

\* Derivation::get_version after get_version_from_env returned nothing
\* (lines 323-343), urls being what get_urls returned.
VersionFromUrls(derivation, urls) ==
    IF urls.panicked THEN [panicked |-> TRUE, version |-> None]
    ELSE IF VersionOfUrls(urls.urls).some
         THEN [panicked |-> FALSE, version |-> VersionOfUrls(urls.urls)]
         ELSE [panicked |-> FALSE, version |-> VersionFromName(derivation)]

\* A faulty Derivation_get_version: `version` is preferred to `rev`.
Derivation_get_version_VersionFirst(derivation) ==
    IF "version" \in DOMAIN derivation.env
    THEN [panicked |-> FALSE, version |-> Some(derivation.env.version)]
    ELSE IF get_version_from_env(derivation).some
         THEN [panicked |-> FALSE, version |-> get_version_from_env(derivation)]
         ELSE VersionFromUrls(derivation, get_urls(derivation))

\* Derivation::get_version.  panicked: get_urls did.
Derivation_get_version(derivation) ==
    IF get_version_from_env(derivation).some
    THEN [panicked |-> FALSE, version |-> get_version_from_env(derivation)]
    ELSE VersionFromUrls(derivation, get_urls(derivation))

\* struct Package: the fields PackageNode reads.  meta: the flags among
\* broken, insecure, unfree and unsupported that the PackageMeta has as
\* Some(true).
Package(pname, name, version, meta) ==
    [pname |-> pname, name |-> name, version |-> version, meta |-> meta]

RECURSIVE NameOfSources(_)
\* `for source in &self.sources` of PackageNode::get_name: the first source
\* with a name other than "source" decides.
NameOfSources(sources) ==
    IF sources = <<>> THEN [panicked |-> FALSE, name |-> None]
    ELSE IF Derivation_get_name(Head(sources)).panicked
         THEN [panicked |-> TRUE, name |-> None]
         ELSE IF /\ Derivation_get_name(Head(sources)).name.some
                 /\ Derivation_get_name(Head(sources)).name.val # <<"source">>
              THEN Derivation_get_name(Head(sources))
              ELSE NameOfSources(Tail(sources))

\* PackageNode::get_name from `self.main_derivation.get_name()` on (lines
\* 718-731), main being what that call returned.
NameOfRecipe(main, sources) ==
    IF main.panicked \/ main.name.some THEN main ELSE NameOfSources(sources)

\* A faulty PackageNode_get_name: the metadata is looked at after the recipe.
PackageNode_get_name_RecipeFirst(node) ==
    IF NameOfRecipe(Derivation_get_name(node.main_derivation), node.sources).panicked
       \/ NameOfRecipe(Derivation_get_name(node.main_derivation), node.sources).name.some
    THEN NameOfRecipe(Derivation_get_name(node.main_derivation), node.sources)
    ELSE IF node.package.some /\ node.package.val.pname # <<"source">>
         THEN [panicked |-> FALSE, name |-> Some(node.package.val.pname)]
         ELSE IF node.package.some /\ node.package.val.name # <<"source">>
              THEN [panicked |-> FALSE, name |-> Some(node.package.val.name)]
              ELSE [panicked |-> FALSE, name |-> None]

\* PackageNode::get_name.
PackageNode_get_name(node) ==
    IF node.package.some /\ node.package.val.pname # <<"source">>
    THEN [panicked |-> FALSE, name |-> Some(node.package.val.pname)]
    ELSE IF node.package.some /\ node.package.val.name # <<"source">>
         THEN [panicked |-> FALSE, name |-> Some(node.package.val.name)]
         ELSE NameOfRecipe(Derivation_get_name(node.main_derivation), node.sources)

\* PackageNode::get_version: the version of the metadata, unless empty.
PackageNode_get_version(node) ==
    IF node.package.some /\ node.package.val.version # <<>>
    THEN Some(node.package.val.version)
    ELSE None

\* A faulty PurlVersion: the recipe is asked before the metadata.
PurlVersion_RecipeFirst(node) ==
    IF Derivation_get_version(node.main_derivation).panicked
       \/ Derivation_get_version(node.main_derivation).version.some
    THEN Derivation_get_version(node.main_derivation)
    ELSE [panicked |-> FALSE, version |-> PackageNode_get_version(node)]

\* The version of the purl (lines 771-774).
PurlVersion(node) ==
    IF PackageNode_get_version(node).some
    THEN [panicked |-> FALSE, version |-> PackageNode_get_version(node)]
    ELSE Derivation_get_version(node.main_derivation)

\* A faulty PurlHost: a node without a name gets the empty host.
PurlHost_Empty(name) ==
    IF name.some THEN name.val ELSE <<>>

\* The host of the purl (lines 751-769): the name, "unknown" without one.
PurlHost(name) ==
    IF name.some THEN name.val ELSE <<"unknown">>

\* A faulty PurlQuery: the download_url is kept for a generic purl only.
PurlQuery_GenericOnly(urls, scheme) ==
    IF urls = <<>> \/ scheme # "generic" THEN << >>
    ELSE [download_url |-> urls[1]]

\* query_params of the purl: empty when get_purl returns at line 788, else
\* the first url under "download_url" (lines 841-843).
PurlQuery(urls, scheme) ==
    IF urls = <<>> THEN << >> ELSE [download_url |-> urls[1]]

\* struct PackageURL as get_purl fills it, from what get_name, the version
\* lookups and get_urls returned.
PackageURL(name, version, urls, scheme) ==
    IF name.panicked \/ version.panicked \/ urls.panicked
    THEN [panicked |-> TRUE]
    ELSE [ panicked     |-> FALSE,
           scheme       |-> scheme.scheme,
           host         |-> PurlHost(name.name),
           version      |-> version.version,
           path         |-> <<>>,
           query_params |-> PurlQuery(urls.urls, scheme.scheme) ]

\* PackageNode::get_purl, its scheme.  panicked: get_name did, on a url of
\* the recipe or of a source, or get_urls did; get_version of the recipe
\* panics on the urls of the recipe alone.
get_purl_scheme(node) ==
    IF PackageNode_get_name(node).panicked
    THEN [panicked |-> TRUE, scheme |-> "generic"]
    ELSE SchemeOfUrls(get_urls(node.main_derivation))

\* PackageNode::get_purl.  panicked: a url names an unknown mirror.
get_purl(node) ==
    PackageURL(PackageNode_get_name(node), PurlVersion(node),
               get_urls(node.main_derivation), get_purl_scheme(node))

\* --------------------------------------------------------------- PackageGraph

\* `*count += 1`, or the insert of 1 for a scheme not counted yet.
CountScheme(response, scheme) ==
    IF scheme \in DOMAIN response
    THEN [response EXCEPT ![scheme] = @ + 1]
    ELSE (scheme :> 1) @@ response

\* A faulty PurlScopeChildren: the queue receives the patches too.
PurlScopeChildren_WithPatches(current_node) ==
    current_node.children \cup current_node.patches

\* `for current_node_child in &current_node.children` of get_purl_scope_stats.
PurlScopeChildren(current_node) == current_node.children

\* `let purl = current_node.get_purl()` and the count of its scheme.
CountPurl(acc, purl) ==
    IF purl.panicked THEN [acc EXCEPT !.panicked = TRUE]
    ELSE [acc EXCEPT !.response = CountScheme(@, purl.scheme)]

RECURSIVE PurlScopeLoop(_, _, _, _)
\* The while loop of get_purl_scope_stats: node_queue is a BTreeSet, and
\* pop_first takes its least path.  acc: the response so far, and whether
\* the run panicked.
PurlScopeLoop(node_queue, visited_children, acc, package_nodes) ==
    IF node_queue = {} \/ acc.panicked THEN acc
    ELSE LET current_node_path == CHOOSE x \in node_queue : \A y \in node_queue : x <= y
             rest == node_queue \ {current_node_path}
         IN IF current_node_path \in visited_children
            THEN PurlScopeLoop(rest, visited_children, acc, package_nodes)
            ELSE IF current_node_path \notin DOMAIN package_nodes
            THEN [acc EXCEPT !.panicked = TRUE]
            ELSE PurlScopeLoop(
                     rest \cup PurlScopeChildren(package_nodes[current_node_path]),
                     visited_children \cup {current_node_path},
                     CountPurl(acc, get_purl_scheme(package_nodes[current_node_path])),
                     package_nodes)

\* PackageGraph::get_purl_scope_stats
get_purl_scope_stats(package_nodes, roots) ==
    PurlScopeLoop(roots, {}, [panicked |-> FALSE, response |-> << >>], package_nodes)

\* PackageGraphStats::default()
DefaultStats ==
    [ nodes_count           |-> 0,
      reachable_nodes_count |-> << >>,
      longest_path_length   |-> << >>,
      root_nodes_count      |-> 0,
      patches_count         |-> 0,
      package_meta_count    |-> 0,
      purl_scope_count      |-> << >> ]

\* The inserts and the assignment of one iteration of the loop of get_stats,
\* given what the three analytics returned.  ended: "" while the run goes on,
\* else how it died.
RecordRoot(acc, root_node, reachable, longest, scopes) ==
    IF reachable.overflow THEN [acc EXCEPT !.ended = "stack_overflow"]
    ELSE IF longest.overflow THEN [acc EXCEPT !.ended = "stack_overflow"]
    ELSE IF longest.panicked \/ scopes.panicked THEN [acc EXCEPT !.ended = "stats_panic"]
    ELSE [acc EXCEPT
            !.stats.reachable_nodes_count = (root_node :> reachable.count) @@ @,
            !.stats.longest_path_length   = (root_node :> Len(longest.path)) @@ @,
            !.stats.purl_scope_count      = scopes.response]

\* A faulty StatsForRoot: the reachable count starts from the children, and
\* their children, of the roots before this one, as if the roots shared one
\* visited set.
StatsForRoot_SharedVisited(acc, root_node, package_nodes, roots) ==
    RecordRoot(acc, root_node,
        get_reachable_nodes_count(root_node, package_nodes,
            UNION { {c} \cup package_nodes[c].children :
                      c \in UNION { package_nodes[r].children :
                                      r \in DOMAIN acc.stats.reachable_nodes_count } },
            1),
        get_longest_path(root_node, package_nodes, << >>, 1),
        get_purl_scope_stats(package_nodes, roots))

\* The body of the loop of get_stats over root_nodes, for one root: the three
\* analytics start from an empty visited set and an empty memo table.
StatsForRoot(acc, root_node, package_nodes, roots) ==
    RecordRoot(acc, root_node,
        get_reachable_nodes_count(root_node, package_nodes, {}, 1),
        get_longest_path(root_node, package_nodes, << >>, 1),
        get_purl_scope_stats(package_nodes, roots))

RECURSIVE StatsLoop(_, _, _, _)
\* The loop of get_stats over root_nodes (a BTreeSet: in ascending order).
StatsLoop(rs, acc, package_nodes, roots) ==
    IF rs = <<>> \/ acc.ended # "" THEN acc
    ELSE IF Head(rs) \notin DOMAIN package_nodes
         THEN [acc EXCEPT !.ended = "stats_panic"]
         ELSE StatsLoop(Tail(rs), StatsForRoot(acc, Head(rs), package_nodes, roots),
                        package_nodes, roots)

\* PackageGraph::get_stats
get_stats(package_nodes, roots) ==
    StatsLoop(SortedSeq(roots),
        [ ended |-> "",
          stats |-> [DefaultStats EXCEPT
                       !.nodes_count = Cardinality(DOMAIN package_nodes),
                       !.root_nodes_count = Cardinality(roots)] ],
        package_nodes, roots)

\* ------------------------------------------------------- get_package_graph

\* Derivation::get_url: the first of get_urls, if any.
get_url(derivation) ==
    IF get_urls(derivation).panicked THEN [panicked |-> TRUE, url |-> None]
    ELSE IF get_urls(derivation).urls = <<>> THEN [panicked |-> FALSE, url |-> None]
    ELSE [panicked |-> FALSE, url |-> Some(get_urls(derivation).urls[1])]

\* Derivation::is_inline_script
is_inline_script(derivation) == "text" \in DOMAIN derivation.env

\* `packages.get(&derivation_name)` on the metadata index pkgs.
PackagesGet(pkgs, derivation_name) ==
    IF derivation_name \in DOMAIN pkgs THEN Some(pkgs[derivation_name]) ELSE None

\* `child_derivation.get_name()` with its placeholder (lines 1167-1175).
ChildDerivationName(name) ==
    IF name.some THEN name.val ELSE <<"NOT_AN_ACTUAL_NAME">>

\* The test of line 1176: the input is a package of the metadata index.
IsPackageChild(child_derivation_name, pkgs) ==
    child_derivation_name # <<"source">> /\ child_derivation_name \in DOMAIN pkgs

\* Lines 1189-1197 for an input that is neither a package nor has a `src`:
\* with a url it is a patch when the patches list holds its `out`, else a
\* source.  url is what get_url returned.
ClassifyFetch(node, child_derivation_path, child_derivation, url, current_node_patches) ==
    IF url.panicked THEN [panicked |-> TRUE, node |-> node, expand |-> FALSE]
    ELSE IF ~url.url.some THEN [panicked |-> FALSE, node |-> node, expand |-> TRUE]
    ELSE IF IsPatchInput(current_node_patches, child_derivation)
         THEN [panicked |-> FALSE,
               node |-> [node EXCEPT !.patches = @ \cup {child_derivation_path}],
               expand |-> TRUE]
         ELSE [panicked |-> FALSE,
               node |-> [node EXCEPT !.sources = Append(@, child_derivation)],
               expand |-> TRUE]

\* A faulty VisitChild: a package of the index is not entered as a child,
\* and its own inputs are looked at.
VisitChild_PackageExpanded(node, child_derivation_path, child_derivation, name, pkgs, current_node_patches) ==
    IF name.panicked THEN [panicked |-> TRUE, node |-> node, expand |-> FALSE]
    ELSE IF "src" \in DOMAIN child_derivation.env
         THEN [panicked |-> FALSE, node |-> node, expand |-> FALSE]
         ELSE ClassifyFetch(node, child_derivation_path, child_derivation,
                            get_url(child_derivation), current_node_patches)

\* The body of the while loop of get_package_graph for an input that was not
\* visited and is in the store (lines 1167-1201); name is what its get_name
\* returned.  expand: the inputs of the input join the worklist.
VisitChild(node, child_derivation_path, child_derivation, name, pkgs, current_node_patches) ==
    IF name.panicked THEN [panicked |-> TRUE, node |-> node, expand |-> FALSE]
    ELSE IF IsPackageChild(ChildDerivationName(name.name), pkgs)
         THEN [panicked |-> FALSE,
               node |-> [node EXCEPT !.children = @ \cup {child_derivation_path}],
               expand |-> FALSE]
         ELSE IF "src" \in DOMAIN child_derivation.env
              THEN [panicked |-> FALSE, node |-> node, expand |-> FALSE]
              ELSE ClassifyFetch(node, child_derivation_path, child_derivation,
                                 get_url(child_derivation), current_node_patches)

\* A faulty LegacyNode: the node carries no metadata.
LegacyNode_NoMetadata(derivation, derivation_name, pkgs) ==
    [ package         |-> None,
      main_derivation |-> derivation,
      sources         |-> <<>>,
      patches         |-> {},
      children        |-> {} ]

\* The PackageNode get_package_graph starts an iteration with (lines
\* 1138-1148): the metadata is the entry of the index at the recipe's name.
LegacyNode(derivation, derivation_name, pkgs) ==
    [ package         |-> PackagesGet(pkgs, derivation_name),
      main_derivation |-> derivation,
      sources         |-> <<>>,
      patches         |-> {},
      children        |-> {} ]

\* ------------------------------------------------------------- pretty_print

\* The names of is_stdenv.
stdenv_names ==
    { "stdenv-linux", "acl", "autoconf", "automake", "attr", "binutils", "bison",
      "bzip2", "db", "findutils", "flex", "gnum4", "gettext", "perl", "patch",
      "patchelf", "pkg-config", "texinfo", "libtool", "libffi", "unzip", "zlib",
      "which" }

\* is_stdenv: the name starts with one of stdenv_names.  A name is a
\* sequence of atoms, and no atom of the names at hand has one of
\* stdenv_names as a proper prefix.
is_stdenv(name) == name # <<>> /\ Head(name) \in stdenv_names

\* struct DisplayOptions: the fields pretty_print reads.
DisplayOptions(print_stdenv, print_only_purl, max_depth) ==
    [print_stdenv |-> print_stdenv, print_only_purl |-> print_only_purl,
     max_depth |-> max_depth]

\* PrettyPrintLine::new.  node is the path of the node the line is printed
\* for, which the code does not keep; kind tells what `line` holds.
PrettyPrintLine(line, indent_level, kind, node) ==
    [line |-> line, indent_level |-> indent_level, kind |-> kind, node |-> node]

\* What a printer returns: how it ended ("": it returned) and its lines.
Printed(ended, lines) == [ended |-> ended, lines |-> lines]

\* The line of Derivation::pretty_print for the node at `node`: the first
\* url, else the name, else a placeholder; urls and name are what get_urls
\* and get_name returned.
DerivationLine(urls, name, depth, kind, node) ==
    IF urls.panicked THEN Printed("print_panic", <<>>)
    ELSE IF urls.urls # <<>>
    THEN Printed("", <<PrettyPrintLine(urls.urls[1], depth + 1, kind, node)>>)
    ELSE IF name.name.some
    THEN Printed("", <<PrettyPrintLine(name.name.val, depth + 1, kind, node)>>)
    ELSE Printed("", <<PrettyPrintLine(<<"unknown derivation?">>, depth + 1, kind, node)>>)

\* Derivation::pretty_print
Derivation_pretty_print(derivation, depth, kind, node) ==
    DerivationLine(get_urls(derivation), Derivation_get_name(derivation), depth, kind, node)

\* r, then (if r returned) s.
ThenPrinted(r, s) ==
    IF r.ended # "" THEN r ELSE Printed(s.ended, r.lines \o s.lines)

RECURSIVE PrintSources(_, _, _)
\* `for source in &self.sources` of PackageNode::pretty_print.
PrintSources(sources, depth, node) ==
    IF sources = <<>> THEN Printed("", <<>>)
    ELSE ThenPrinted(Derivation_pretty_print(Head(sources), depth + 1, "source", node),
                     PrintSources(Tail(sources), depth, node))

RECURSIVE PrintPatches(_, _, _, _)
\* `for patch_path in &self.patches` of PackageNode::pretty_print (a
\* BTreeSet: in ascending order): a patch the graph lacks panics.
PrintPatches(ps, package_nodes, depth, node) ==
    IF ps = <<>> THEN Printed("", <<>>)
    ELSE IF Head(ps) \notin DOMAIN package_nodes THEN Printed("print_panic", <<>>)
    ELSE ThenPrinted(
             Derivation_pretty_print(package_nodes[Head(ps)].main_derivation,
                                     depth + 1, "patch", node),
             PrintPatches(Tail(ps), package_nodes, depth, node))

RECURSIVE MetaLines(_, _, _, _)
\* The `if self.meta.<flag>.unwrap_or(false)` statements of
\* Package::pretty_print for the flags given, one after the other.
MetaLines(flags, meta, depth, node) ==
    IF flags = <<>> THEN <<>>
    ELSE (IF Head(flags) \in meta
          THEN <<PrettyPrintLine(<<Head(flags), ": true">>, depth + 1, "meta", node)>>
          ELSE <<>>)
         \o MetaLines(Tail(flags), meta, depth, node)

\* Package::pretty_print
Package_pretty_print(package, depth, node) ==
    Printed("", MetaLines(<<"broken", "insecure", "unfree", "unsupported">>,
                          package.meta, depth, node))

\* The `if !display_options.print_only_purl` block of
\* PackageNode::pretty_print.
PrintDetails(path, package_nodes, depth) ==
    ThenPrinted(
      IF package_nodes[path].package.some
      THEN Package_pretty_print(package_nodes[path].package.val, depth, path)
      ELSE Printed("", <<>>),
      ThenPrinted(
        Derivation_pretty_print(package_nodes[path].main_derivation, depth, "derivation", path),
        ThenPrinted(
            IF package_nodes[path].sources # <<>>
            THEN ThenPrinted(
                     Printed("", <<PrettyPrintLine(<<"sources:">>, depth + 1, "title", path)>>),
                     PrintSources(package_nodes[path].sources, depth, path))
            ELSE Printed("", <<>>),
            IF package_nodes[path].patches # {}
            THEN ThenPrinted(
                     Printed("", <<PrettyPrintLine(<<"patches:">>, depth + 1, "title", path)>>),
                     PrintPatches(SortedSeq(package_nodes[path].patches), package_nodes,
                                  depth, path))
            ELSE Printed("", <<>>))))

\* The line of the purl of PackageNode::pretty_print, purl being what
\* get_purl returned.
PurlLine(purl, depth, path) ==
    IF purl.panicked THEN Printed("print_panic", <<>>)
    ELSE Printed("", <<PrettyPrintLine(purl, depth, "purl", path)>>)

\* `lines.push(PrettyPrintLine::new(self.get_purl().to_string(), depth))`
PrintPurl(path, package_nodes, depth) ==
    PurlLine(get_purl(package_nodes[path]), depth, path)

\* `!display_options.print_stdenv && is_stdenv(&..get_name().unwrap())`,
\* name being what get_name returned: "panic" when the recipe has no name
\* (or get_name itself panicked), else whether the node is passed over.
StdenvTest(name, display_options) ==
    IF display_options.print_stdenv THEN "print"
    ELSE IF name.panicked \/ ~name.name.some THEN "panic"
    ELSE IF is_stdenv(name.name.val) THEN "skip"
    ELSE "print"

\* StdenvTest of the recipe.
SkipStdenv(derivation, display_options) ==
    StdenvTest(Derivation_get_name(derivation), display_options)

RECURSIVE PrettyPrintCalled(_, _, _, _, _)
RECURSIVE PrintChildren(_, _, _, _, _)
\* The node at `path` once its name went through StdenvTest, with the
\* result `test`: the unwrap panicked, the node is passed over, or it is
\* printed.  callers: the nodes whose pretty_print is under way.
PrintTested(test, path, package_nodes, depth, display_options, callers) ==
    IF test = "panic" THEN Printed("print_panic", <<>>)
    ELSE IF test = "skip" THEN Printed("", <<>>)
    ELSE PrettyPrintCalled(path, package_nodes, depth, display_options, callers)

\* The loop of PackageNode::pretty_print over self.children (a BTreeSet: in
\* ascending order): a child the graph lacks is passed over.
PrintChildren(cs, package_nodes, depth, display_options, callers) ==
    IF cs = <<>> THEN Printed("", <<>>)
    ELSE IF Head(cs) \notin DOMAIN package_nodes
    THEN PrintChildren(Tail(cs), package_nodes, depth, display_options, callers)
    ELSE ThenPrinted(
             PrintTested(SkipStdenv(package_nodes[Head(cs)].main_derivation, display_options),
                         Head(cs), package_nodes, depth + 1, display_options, callers),
             PrintChildren(Tail(cs), package_nodes, depth, display_options, callers))

\* PackageNode::pretty_print of the node at `path`, called while the
\* pretty_print of each node of `callers` is under way.  The function has
\* no memory of the nodes it went through: when it comes to a node of
\* `callers` again and no max_depth cuts the descent, the calls that led
\* from that node back to it repeat without end, and the process ends in
\* "stack_overflow".
PrettyPrintCalled(path, package_nodes, depth, display_options, callers) ==
    IF path \in callers /\ ~display_options.max_depth.some
    THEN Printed("stack_overflow", <<>>)
    ELSE IF is_inline_script(package_nodes[path].main_derivation) THEN Printed("", <<>>)
    ELSE IF display_options.max_depth.some /\ depth >= display_options.max_depth.val
    THEN Printed("", <<>>)
    ELSE ThenPrinted(
             PrintPurl(path, package_nodes, depth),
             ThenPrinted(
                 IF display_options.print_only_purl THEN Printed("", <<>>)
                 ELSE PrintDetails(path, package_nodes, depth),
                 PrintChildren(SortedSeq(package_nodes[path].children), package_nodes,
                               depth, display_options, callers \cup {path})))

\* PackageNode::pretty_print of the node at `path`, at the depth `depth`.
PackageNode_pretty_print(path, package_nodes, depth, display_options) ==
    PrettyPrintCalled(path, package_nodes, depth, display_options, {})

RECURSIVE MarkLoop(_, _, _, _)
RECURSIVE add_visited_children(_, _, _, _)
\* The loop of add_visited_children over package_node.children.  acc holds
\* visited_children and whether the recursion outgrew the stack.
MarkLoop(cs, package_nodes, acc, depth) ==
    IF cs = <<>> \/ acc.overflow THEN acc
    ELSE IF Head(cs) \in acc.visited_children
    THEN MarkLoop(Tail(cs), package_nodes, acc, depth)
    ELSE IF Head(cs) \notin DOMAIN package_nodes
    THEN MarkLoop(Tail(cs), package_nodes,
                  [acc EXCEPT !.visited_children = @ \cup {Head(cs)}], depth)
    ELSE MarkLoop(Tail(cs), package_nodes,
             add_visited_children(Head(cs), package_nodes,
                 [acc EXCEPT !.visited_children = @ \cup {Head(cs)}], depth + 1),
             depth)

\* add_visited_children of the node at `path`, at the recursion depth
\* `depth`.
add_visited_children(path, package_nodes, acc, depth) ==
    IF depth > MaxStackDepth THEN [acc EXCEPT !.overflow = TRUE]
    ELSE MarkLoop(SortedSeq(package_nodes[path].children), package_nodes, acc, depth)

RECURSIVE MarkChildren(_, _, _)
\* The body of the first loop of PackageGraph::pretty_print for one node:
\* "print_panic" on a child the graph lacks.
MarkChildren(cs, package_nodes, acc) ==
    IF cs = <<>> \/ acc.overflow \/ acc.panicked THEN acc
    ELSE IF Head(cs) \notin DOMAIN package_nodes THEN [acc EXCEPT !.panicked = TRUE]
    ELSE MarkChildren(Tail(cs), package_nodes,
                      add_visited_children(Head(cs), package_nodes, acc, 1))

RECURSIVE MarkNodes(_, _, _)
\* The first loop of PackageGraph::pretty_print, over the nodes ks that the
\* BTreeMap has yet to yield.
MarkNodes(ks, package_nodes, acc) ==
    IF ks = <<>> \/ acc.overflow \/ acc.panicked THEN acc
    ELSE IF Head(ks) \in acc.visited_children
    THEN MarkNodes(Tail(ks), package_nodes, acc)
    ELSE MarkNodes(Tail(ks), package_nodes,
             MarkChildren(SortedSeq(package_nodes[Head(ks)].children), package_nodes, acc))

RECURSIVE PrintNodes(_, _, _, _)
\* The second loop of PackageGraph::pretty_print, over the nodes ks that
\* the BTreeMap has yet to yield.
PrintNodes(ks, package_nodes, depth, display_options) ==
    IF ks = <<>> THEN Printed("", <<>>)
    ELSE ThenPrinted(
             PrintTested(SkipStdenv(package_nodes[Head(ks)].main_derivation, display_options),
                         Head(ks), package_nodes, depth, display_options, {}),
             PrintNodes(Tail(ks), package_nodes, depth, display_options))

\* What the first loop of PackageGraph::pretty_print starts from.
NoneVisited == [visited_children |-> {}, overflow |-> FALSE, panicked |-> FALSE]

\* The second half of PackageGraph::pretty_print, over the nodes in the
\* order ks; marked is what the first loop left.
PrintMarked(marked, ks, package_nodes, depth, display_options) ==
    IF marked.overflow THEN Printed("stack_overflow", <<>>)
    ELSE IF marked.panicked THEN Printed("print_panic", <<>>)
    ELSE PrintNodes(ks, package_nodes, depth, display_options)

\* PackageGraph::pretty_print
PackageGraph_pretty_print(package_nodes, depth, display_options) ==
    PrintMarked(MarkNodes(SortedSeq(DOMAIN package_nodes), package_nodes, NoneVisited),
                SortedSeq(DOMAIN package_nodes), package_nodes, depth,
                display_options)

RECURSIVE OutPathsOfChildren(_, _, _)
RECURSIVE PackageNode_print_out_paths(_, _, _)
\* `for child_derivation_path in self.children.iter()` of
\* PackageNode::print_out_paths (a BTreeSet: in ascending order): the line
\* of the child, then what the child prints; a child the graph lacks panics
\* the unwrap.
OutPathsOfChildren(cs, package_nodes, depth) ==
    IF cs = <<>> THEN Printed("", <<>>)
    ELSE IF Head(cs) \notin DOMAIN package_nodes THEN Printed("print_panic", <<>>)
    ELSE ThenPrinted(
             Printed("", <<PrettyPrintLine(Head(cs), depth, "out_path", Head(cs))>>),
             ThenPrinted(PackageNode_print_out_paths(Head(cs), package_nodes, depth + 1),
                         OutPathsOfChildren(Tail(cs), package_nodes, depth)))

\* PackageNode::print_out_paths after get_name returned name: nothing for a
\* node of the stdenv, the empty string standing for a missing name.
OutPathsNamed(name, path, package_nodes, depth) ==
    IF name.panicked THEN Printed("print_panic", <<>>)
    ELSE IF is_stdenv(IF name.name.some THEN name.name.val ELSE <<>>) THEN Printed("", <<>>)
    ELSE OutPathsOfChildren(SortedSeq(package_nodes[path].children), package_nodes, depth)

\* PackageNode::print_out_paths of the node at `path`; depth is also the
\* depth of the recursion: "stack_overflow" when it outgrows the stack.
PackageNode_print_out_paths(path, package_nodes, depth) ==
    IF depth > MaxStackDepth THEN Printed("stack_overflow", <<>>)
    ELSE OutPathsNamed(Derivation_get_name(package_nodes[path].main_derivation),
                       path, package_nodes, depth)

RECURSIVE OutPathsOfRoots(_, _)
\* `for derivation_path in &self.root_nodes` of PackageGraph::print_out_paths
\* (a BTreeSet: in ascending order): a root the graph lacks panics the
\* unwrap.
OutPathsOfRoots(rs, package_nodes) ==
    IF rs = <<>> THEN Printed("", <<>>)
    ELSE IF Head(rs) \notin DOMAIN package_nodes THEN Printed("print_panic", <<>>)
    ELSE ThenPrinted(
             Printed("", <<PrettyPrintLine(Head(rs), 0, "out_path", Head(rs))>>),
             ThenPrinted(PackageNode_print_out_paths(Head(rs), package_nodes, 1),
                         OutPathsOfRoots(Tail(rs), package_nodes)))

\* PackageGraph::print_out_paths
PackageGraph_print_out_paths(package_nodes, roots) ==
    OutPathsOfRoots(SortedSeq(roots), package_nodes)

\* ---------------------------------------------------------------- the dumps

\* struct DumpOptions: runtime_only, and pretty (an Option).
DumpOptions(runtime_only, pretty) == [runtime_only |-> runtime_only, pretty |-> pretty]

\* `package.build_inputs` of cyclone_dx::dump, a field that the PackageNode
\* of nix.rs lacks: build_inputs gives the build inputs of every node, which
\* the set iterates in ascending order.
BuildInputsOf(build_inputs, derivation_path) == SortedSeq(build_inputs[derivation_path])

\* The layout of the text serde gives a document: serde_json::to_string
\* for pretty = Some(false), serde_json::to_string_pretty otherwise.
JsonLayout(options) ==
    IF options.pretty.some /\ ~options.pretty.val THEN "json" ELSE "json_pretty"

\* What a dump returns: how it ended ("": Ok, "dump_error": Err,
\* "dump_panic") and the entries of the document.
Dumped(ended, entries) == [ended |-> ended, entries |-> entries]

\* r, then (if r returned Ok) s: a failure of either is what is returned.
ThenDumped(r, s) ==
    IF r.ended # "" THEN r
    ELSE IF s.ended # "" THEN s
    ELSE Dumped("", r.entries \o s.entries)

RECURSIVE CommitsOf(_, _)
\* The loop of cyclone_dx::get_commits over the patches ps (a BTreeSet: in
\* ascending order): the url of each patch that has one; a patch the graph
\* lacks panics the unwrap.
CommitsOf(ps, package_nodes) ==
    IF ps = <<>> THEN Dumped("", <<>>)
    ELSE IF Head(ps) \notin DOMAIN package_nodes THEN Dumped("dump_panic", <<>>)
    ELSE ThenDumped(
             IF get_url(package_nodes[Head(ps)].main_derivation).panicked
             THEN Dumped("dump_panic", <<>>)
             ELSE IF get_url(package_nodes[Head(ps)].main_derivation).url.some
             THEN Dumped("", <<get_url(package_nodes[Head(ps)].main_derivation).url.val>>)
             ELSE Dumped("", <<>>),
             CommitsOf(Tail(ps), package_nodes))

\* What cyclone_dx::get_commits returns, commits being what its loop
\* built: `response`, which it never fills.
CommitsReturned(commits) ==
    IF commits.ended # "" THEN commits ELSE Dumped("", <<>>)

\* cyclone_dx::get_commits
get_commits(package_nodes, patches) ==
    CommitsReturned(CommitsOf(SortedSeq(patches), package_nodes))

\* The Component of cyclone_dx::dump_derivation, from what get_name,
\* get_purl and get_commits returned: none for a node without a name.  The
\* code reads the name from a field `name` of the node, which the
\* PackageNode of nix.rs lacks; it is taken to hold what get_name returns.
Component(derivation_path, name, purl, commits) ==
    IF name.panicked THEN Dumped("dump_panic", <<>>)
    ELSE IF ~name.name.some THEN Dumped("", <<>>)
    ELSE IF purl.panicked \/ commits.ended # "" THEN Dumped("dump_panic", <<>>)
    ELSE Dumped("", << [ kind    |-> "component",
                         bom_ref |-> derivation_path,
                         name    |-> name.name.val,
                         purl    |-> purl,
                         commits |-> commits.entries ] >>)

\* cyclone_dx::dump_derivation
dump_derivation(package_nodes, derivation_path) ==
    Component(derivation_path,
              PackageNode_get_name(package_nodes[derivation_path]),
              get_purl(package_nodes[derivation_path]),
              get_commits(package_nodes, package_nodes[derivation_path].patches))

\* cyclone_dx::dump_package_node: nothing for an inline script.
dump_package_node(derivation_path, package_nodes) ==
    IF is_inline_script(package_nodes[derivation_path].main_derivation)
    THEN Dumped("", <<>>)
    ELSE dump_derivation(package_nodes, derivation_path)

RECURSIVE Components(_, _)
\* The first loop of cyclone_dx::dump, over the nodes in the order ks of the
\* map.
Components(ks, package_nodes) ==
    IF ks = <<>> THEN Dumped("", <<>>)
    ELSE ThenDumped(dump_package_node(Head(ks), package_nodes),
                    Components(Tail(ks), package_nodes))

\* depends_on of a node with children: the children, then (unless
\* options.runtime_only) the build inputs.
DependsOn(children, build_inputs, options) ==
    IF options.runtime_only THEN children ELSE children \o build_inputs

RECURSIVE Dependencies(_, _, _, _)
\* The second loop of cyclone_dx::dump: a Dependency for every node with
\* children.
Dependencies(ks, package_nodes, build_inputs, options) ==
    IF ks = <<>> THEN Dumped("", <<>>)
    ELSE ThenDumped(
             IF package_nodes[Head(ks)].children = {} THEN Dumped("", <<>>)
             ELSE Dumped("", << [ kind       |-> "dependency",
                                  ref        |-> Head(ks),
                                  depends_on |->
                                      DependsOn(SortedSeq(package_nodes[Head(ks)].children),
                                                BuildInputsOf(build_inputs, Head(ks)),
                                                options) ] >>),
             Dependencies(Tail(ks), package_nodes, build_inputs, options))

\* enum SerializationFormat
SerializationFormats == {"JSON", "YAML", "XML"}

\* The text of a document in a layout.
Laid(document, layout) ==
    [ended |-> document.ended, entries |-> document.entries, layout |-> layout]

\* The `match format` of cyclone_dx::dump on the document built: XML is an
\* error.
Serialized(format, options, document) ==
    IF document.ended # "" THEN document
    ELSE IF format = "XML" THEN Dumped("dump_error", <<>>)
    ELSE IF format = "YAML" THEN Laid(document, "yaml")
    ELSE Laid(document, JsonLayout(options))

\* cyclone_dx::dump, nodes_next (a map that the PackageGraph of nix.rs does
\* not declare) yielding the nodes in the order ks in both loops.
cyclone_dx_dump(ks, package_nodes, build_inputs, format, options) ==
    Serialized(format, options,
               ThenDumped(Components(ks, package_nodes),
                          Dependencies(ks, package_nodes, build_inputs, options)))

\* PackageGraph::get_root_node, which spdx::dump calls and nix.rs does not
\* hold: the root node when there is exactly one ("Expected to find a single
\* root node", spdx.rs).
get_root_node(roots) ==
    IF Cardinality(roots) = 1 THEN Some(CHOOSE r \in roots : TRUE) ELSE None

\* The SpdxItemPackages of spdx::dump_package, from what get_name returned:
\* the name is the id of the node when it has none.  The id is a field that
\* the PackageNode of nix.rs lacks; it is taken to be the path of the node.
SpdxItemPackages(id, name) ==
    IF name.panicked THEN Dumped("dump_panic", <<>>)
    ELSE Dumped("", << [ kind   |-> "package",
                         spdxid |-> id,
                         name   |-> IF name.name.some THEN name.name.val ELSE <<id>> ] >>)

\* spdx::dump_package
dump_package(id, package_nodes) ==
    SpdxItemPackages(id, PackageNode_get_name(package_nodes[id]))

RECURSIVE SpdxPackages(_, _)
\* `for (_package_id, package) in &package_graph.nodes` of spdx::dump, over
\* the nodes ks that the BTreeMap has yet to yield.
SpdxPackages(ks, package_nodes) ==
    IF ks = <<>> THEN Dumped("", <<>>)
    ELSE ThenDumped(dump_package(Head(ks), package_nodes),
                    SpdxPackages(Tail(ks), package_nodes))

\* spdx::dump after get_root_node returned root_node_id: without a root the
\* text returned is a message, and a root the graph lacks panics the unwrap.
SpdxDocument(root_node_id, ks, package_nodes) ==
    IF ~root_node_id.some THEN Dumped("", << [kind |-> "message"] >>)
    ELSE IF root_node_id.val \notin DOMAIN package_nodes THEN Dumped("dump_panic", <<>>)
    ELSE SpdxPackages(ks, package_nodes)

\* The `match options.pretty` of spdx::dump on the document built; the
\* message for a graph without a single root is returned as it is.
SpdxSerialized(root_node_id, options, document) ==
    IF document.ended # "" \/ ~root_node_id.some THEN document
    ELSE Laid(document, JsonLayout(options))

\* spdx::dump
spdx_dump(package_nodes, roots, options) ==
    SpdxSerialized(get_root_node(roots), options,
                   SpdxDocument(get_root_node(roots), SortedSeq(DOMAIN package_nodes),
                                package_nodes))

\* ------------------------------------------------------------ native::dump

\* The fields of a node that native::dump reads and the PackageNode of
\* nix.rs lacks: source_derivation, name, url and git_urls.  The id, lacking
\* too, is taken to be the path of the node.
NativeFields(source_derivation, name, url, git_urls) ==
    [ source_derivation |-> source_derivation, name |-> name, url |-> url,
      git_urls |-> git_urls ]

\* struct NativePackage as native::dump fills it, from what get_purl and
\* get_urls returned: either may panic on an unknown mirror.  The url of
\* the node, if any, is pushed after the urls of the recipe.
NativePackage(id, fields, version, purl, urls) ==
    IF purl.panicked \/ urls.panicked THEN Dumped("dump_panic", <<>>)
    ELSE Dumped("", << [ kind              |-> "native",
                         id                |-> id,
                         name              |-> fields.name.val,
                         version           |-> version,
                         purl              |-> purl,
                         git_urls          |-> fields.git_urls,
                         download_urls     |-> IF fields.url.some
                                               THEN Append(urls.urls, fields.url.val)
                                               ELSE urls.urls,
                         homepages         |-> <<>>,
                         source_derivation |-> fields.source_derivation.val ] >>)

\* The body of the loop of native::dump: a node without source_derivation
\* is passed over, and one without a name is an error.
NativeNode(id, node, fields) ==
    IF ~fields.source_derivation.some THEN Dumped("", <<>>)
    ELSE IF ~fields.name.some
    THEN [ended |-> "dump_error", entries |-> <<>>,
          message |-> <<"No name found for package ", id>>]
    ELSE NativePackage(id, fields, PackageNode_get_version(node), get_purl(node),
                       get_urls(node.main_derivation))

RECURSIVE NativePackages(_, _, _)
\* `for package in package_graph.nodes.values()` of native::dump, over the
\* nodes ks that the BTreeMap has yet to yield.
NativePackages(ks, package_nodes, fields) ==
    IF ks = <<>> THEN Dumped("", <<>>)
    ELSE ThenDumped(NativeNode(Head(ks), package_nodes[Head(ks)], fields[Head(ks)]),
                    NativePackages(Tail(ks), package_nodes, fields))

RECURSIVE InsertById(_, _)
\* The package put after the packages of s whose id is not greater.
InsertById(package, s) ==
    IF s = <<>> THEN <<package>>
    ELSE IF package.id < Head(s).id THEN <<package>> \o s
    ELSE <<Head(s)>> \o InsertById(package, Tail(s))

RECURSIVE SortById(_)
\* native_packages.sort_by(|a, b| a.id.cmp(&b.id)), a stable sort.
SortById(native_packages) ==
    IF native_packages = <<>> THEN <<>>
    ELSE InsertById(native_packages[Len(native_packages)],
                    SortById(SubSeq(native_packages, 1, Len(native_packages) - 1)))

\* The end of native::dump on the packages collected: the sort, and the
\* `match options.pretty`.  The serialization format is not looked at.
NativeSerialized(options, document) ==
    IF document.ended # "" THEN document
    ELSE Laid(Dumped("", SortById(document.entries)), JsonLayout(options))

\* native::dump
native_dump(package_nodes, fields, options) ==
    NativeSerialized(options,
                     NativePackages(SortedSeq(DOMAIN package_nodes), package_nodes, fields))

\* The arm Format::Native of format::Format::dump: the error of native::dump
\* under its prefix.
Format_Native_dump(package_nodes, fields, options) ==
    IF native_dump(package_nodes, fields, options).ended = "dump_error"
    THEN [native_dump(package_nodes, fields, options)
            EXCEPT !.message = <<"Error dumping manifest: ">> \o @]
    ELSE native_dump(package_nodes, fields, options)

\* --------------------------------------------------------------------- main

\* str::ends_with
EndsWith(s, suffix) ==
    /\ Len(suffix) <= Len(s)
    /\ SubSeq(s, Len(s) - Len(suffix) + 1, Len(s)) = suffix

\* sbom::Format::from_string
Format_from_string(format) ==
    IF EndsWith(format, <<"spdx">>) THEN Some("SPDX")
    ELSE IF EndsWith(format, <<"cdx">>) THEN Some("CycloneDX")
    ELSE IF EndsWith(format, <<"pretty">>) THEN Some("PrettyPrint")
    ELSE IF EndsWith(format, <<"out-paths">>) THEN Some("OutPaths")
    ELSE IF EndsWith(format, <<"stats">>) THEN Some("Stats")
    ELSE None

\* sbom::SerializationFormat::from_string
SerializationFormat_from_string(format) ==
    IF EndsWith(format, <<"json">>) THEN Some("JSON")
    ELSE IF EndsWith(format, <<"yaml">>) \/ EndsWith(format, <<"yml">>) THEN Some("YAML")
    ELSE IF EndsWith(format, <<"xml">>) THEN Some("XML")
    ELSE None

\* sbom::Format::get_default_serialization_format
get_default_serialization_format(output_format) ==
    IF output_format \in {"CycloneDX", "SPDX", "Stats"} THEN "JSON" ELSE "XML"

\* `let output_format = match args.format` of main: Format::default() is
\* CycloneDX.  None: the format is invalid.
OutputFormat(args) ==
    IF args.format.some THEN Format_from_string(args.format.val) ELSE Some("CycloneDX")

\* `let serialization_format = match args.serialization_format` of main,
\* once the output format is known.  None: the format is invalid.
SerializationFormat(args, output_format) ==
    IF args.serialization_format.some
    THEN SerializationFormat_from_string(args.serialization_format.val)
    ELSE Some(get_default_serialization_format(output_format))

\* What an external command, or the read of a file, gives: whether it could
\* be started (the file be read), its exit status, whether its stderr is
\* UTF-8, and what its stdout (the file) parses to, None when it does not
\* parse.
Output(spawned, success, stderr_utf8, stdout) ==
    [spawned |-> spawned, success |-> success, stderr_utf8 |-> stderr_utf8,
     stdout |-> stdout]

\* A Result: Ok(value), Err(message), or a panic in between.
Ok(value) == [ended |-> "", value |-> value]
Err(message) == [ended |-> "err", message |-> message]
Panicked == [ended |-> "panic"]

\* Derivation::get_derivations, `nix derivation show` giving output.
get_derivations(output) ==
    IF ~output.spawned THEN Err(<<"io error">>)
    ELSE IF ~output.success
    THEN (IF output.stderr_utf8 THEN Err(<<"Could not get derivations from">>) ELSE Panicked)
    ELSE IF ~output.stdout.some THEN Err(<<"serde_json error">>)
    ELSE Ok(output.stdout.val)

\* "Re-index the packages using the internal package name": of two packages
\* of the same name the HashMap keeps either.
ReIndexed(raw_packages) ==
    { pkgs \in [ { raw_packages[k].name : k \in DOMAIN raw_packages } ->
                 { raw_packages[k] : k \in DOMAIN raw_packages } ] :
        \A n \in DOMAIN pkgs : pkgs[n].name = n }

\* get_packages, the file at metadata_path or `nix-env -q -a --meta --json`
\* giving output: the set of what it may return.  The exit status of nix-env
\* is not looked at.
get_packages(metadata_path, no_meta, output) ==
    IF no_meta THEN {Ok(<< >>)}
    ELSE IF ~output.spawned THEN {Err(<<"io error">>)}
    ELSE IF ~output.stdout.some THEN {Err(<<"serde_json error">>)}
    ELSE { Ok(pkgs) : pkgs \in ReIndexed(output.stdout.val) }

\* SerializationFormat::to_string
SerializationFormat_to_string(format) ==
    IF format = "JSON" THEN "json" ELSE IF format = "YAML" THEN "yaml" ELSE "xml"

\* The `match crate::cyclone_dx::dump(..)` of Format::dump: the text
\* returned, or the error under its prefix.
DumpResult(dumped) ==
    IF dumped.ended = "" THEN Ok([entries |-> dumped.entries, layout |-> dumped.layout])
    ELSE IF dumped.ended = "dump_error"
    THEN Err(<<"Error dumping manifest: ", "XML is not supported for CycloneDX">>)
    ELSE Panicked

\* The text pretty_print returned, or its failure.
PrintResult(printed) ==
    IF printed.ended = "" THEN Ok(printed.lines) ELSE Panicked

\* The text of the stats, or the failure of get_stats.
StatsResult(r) ==
    IF r.ended = "" THEN Ok(<<r.stats>>) ELSE Panicked

\* sbom::Format::dump, nodes_next yielding the nodes in the order ks to
\* cyclone_dx::dump: SPDX is not supported yet.
Format_dump(output_format, serialization_format, ks, package_nodes, roots, build_inputs, options) ==
    IF output_format = "CycloneDX"
    THEN DumpResult(cyclone_dx_dump(ks, package_nodes, build_inputs, serialization_format,
                                    options))
    ELSE IF output_format = "SPDX"
    THEN Err(<<SerializationFormat_to_string(serialization_format), " is not supported yet">>)
    ELSE IF output_format = "PrettyPrint"
    THEN PrintResult(PackageGraph_pretty_print(package_nodes, 0,
                                               DisplayOptions(FALSE, TRUE, Some(1))))
    ELSE IF output_format = "OutPaths"
    THEN PrintResult(PackageGraph_print_out_paths(package_nodes, roots))
    ELSE StatsResult(get_stats(package_nodes, roots))

\* ------------------------------------------------------------------ state

VARIABLES
    derivations,            \* the store: path -> Derivation
    pc,                     \* where the run is: "nodes" (in the first loop of
                            \* get_package_graph_next), "panic" (the builder
                            \* panicked), "built", "done" (get_stats returned),
                            \* "stack_overflow", "stats_panic" (get_stats died)
    todo,                   \* the paths the first loop has not reached yet
    nodes,                  \* response.nodes
    all_child_derivations,  \* the paths some node has as child or patch
    root_nodes,             \* response.root_nodes
    stats,                  \* what get_stats returned
    arg,                    \* the argument of a function called on its own
    ret,                    \* what the calls on arg returned, in order
    packages,               \* the metadata index: name -> Package
    current_node,           \* get_package_graph: the path and the node of the
                            \* iteration of the outer loop under way, if any
    child_derivation_paths, \* get_package_graph: the worklist of that iteration
    visited_derivations     \* get_package_graph: its visited set

\* What only get_package_graph reads and writes.
builder_vars == <<packages, current_node, child_derivation_paths, visited_derivations>>

vars == <<derivations, pc, todo, nodes, all_child_derivations, root_nodes, stats,
          arg, ret, builder_vars>>

\* No metadata, and no iteration of get_package_graph under way.
NoBuilderState ==
    /\ packages = << >>
    /\ current_node = None
    /\ child_derivation_paths = {}
    /\ visited_derivations = {}

\* The values of `patches` the stores of Spec declare: the empty string, one
\* out path, the other out paths joined by " ", and a list with a doubled
\* space.
PatchesValues ==
    { <<>>,
      OutPath(1),
      JoinFrom([i \in 1..(NumPaths - 1) |-> OutPath(i + 1)], SP),
      OutPath(1) \o <<SP, SP>> \o OutPath(NumPaths) }

\* A store of Spec: the derivations at the paths K, with the inputs inp; each
\* has its own `out`, but the one at `no` (0: none of them) has none, and the
\* one pd names (if any) declares `patches`.
Store(K, inp, pd, no) ==
    [p \in K |-> Derivation(inp[p],
        IF pd.some /\ pd.val[1] = p
        THEN (IF no = p THEN [patches |-> pd.val[2]]
              ELSE [out |-> OutPath(p), patches |-> pd.val[2]])
        ELSE (IF no = p THEN << >> ELSE [out |-> OutPath(p)]))]

Start(store) ==
    /\ derivations = store
    /\ pc = "nodes"
    /\ todo = DOMAIN store
    /\ nodes = << >>
    /\ all_child_derivations = {}
    /\ root_nodes = {}
    /\ stats = DefaultStats
    /\ arg = None
    /\ ret = << >>
    /\ NoBuilderState

\* Any set of the paths, each derivation with any inputs (absent, own and
\* cyclic ones included); any one derivation may declare `patches`, and the
\* first may lack its `out`.
Init ==
    \E K \in SUBSET Paths :
      \E inp \in [K -> SUBSET Paths] :
        \E pd \in {None} \cup { Some(x) : x \in K \X PatchesValues } :
          \E no \in {0} \cup (K \cap {1}) :
            Start(Store(K, inp, pd, no))

\* The body of the first loop of get_package_graph_next for one derivation,
\* which the HashMap yields in any order.
BuildNode ==
    /\ pc = "nodes"
    /\ \E derivation_path \in todo :
         LET derivation == derivations[derivation_path]
             current_node_patches == get_patches(derivation)
         IN \E ks \in Orderings(derivation.input_derivations) :
              LET r == ClassifyInputs(ks, derivations, current_node_patches,
                                      EmptyEdges(all_child_derivations))
              IN IF r.panicked
                 THEN /\ pc' = "panic"
                      /\ UNCHANGED <<todo, nodes, all_child_derivations>>
                 ELSE /\ nodes' = nodes @@
                            (derivation_path :> PackageNode(derivation, r.children, r.patches))
                      /\ all_child_derivations' = r.all_child_derivations
                      /\ todo' = todo \ {derivation_path}
                      /\ pc' = "nodes"
    /\ UNCHANGED <<derivations, root_nodes, stats, arg, ret, builder_vars>>

\* The second loop of get_package_graph_next and its return.
ComputeRoots ==
    /\ pc = "nodes"
    /\ todo = {}
    /\ \E ks \in Orderings(DOMAIN derivations) :
         root_nodes' = RootNodes(ks, all_child_derivations)
    /\ pc' = "built"
    /\ UNCHANGED <<derivations, todo, nodes, all_child_derivations, stats, arg, ret,
                   builder_vars>>

\* PackageGraph::get_stats on the graph built.
GetStats ==
    /\ pc = "built"
    /\ \E r \in {get_stats(nodes, root_nodes)} :
         IF r.ended = ""
         THEN pc' = "done" /\ stats' = r.stats
         ELSE pc' = r.ended /\ UNCHANGED stats
    /\ UNCHANGED <<derivations, todo, nodes, all_child_derivations, root_nodes, arg, ret,
                   builder_vars>>

Next ==
    \/ BuildNode
    \/ ComputeRoots
    \/ GetStats

Spec == Init /\ [][Next]_vars

\* ------------------------------------------------- the stores of SpecStats

StatsPaths == 1..NumStatsPaths

\* The `url` / `urls` values of the stores of SpecStats: none, a crates.io
\* url, and a list whose first url is a mirror:// one.
UrlEnvs ==
    << << >>,
       [url  |-> <<"https://crates.io", "/", "api">>],
       [urls |-> <<"mirror://", "hackage", "/", "x", SP, "https://pypi.org", "/", "y">>] >>

\* The pairs i < j of positions of an order: the edges an acyclic store may have.
ForwardPairs == { x \in (1..NumStatsPaths) \X (1..NumStatsPaths) : x[1] < x[2] }

\* The inputs of the acyclic store that has, for the order ord of its paths,
\* the edges E.
AcyclicInputs(ord, E) ==
    [p \in StatsPaths |->
        { ord[x[2]] : x \in { y \in E : ord[y[1]] = p } }]

\* The inputs of a store with cycles: for the order ord of its paths, the
\* first needs the second, the second and the third need each other, and
\* every other path needs itself.
CyclicInputs(ord) ==
    [p \in StatsPaths |->
        IF p = ord[1] THEN {ord[2]}
        ELSE IF p = ord[2] THEN {ord[3]}
        ELSE IF p = ord[3] THEN {ord[2]}
        ELSE {p}]

\* A store of SpecStats: every derivation has its `out`; the one at pd[1] (if
\* any) declares the out path of its input pd[2] as its only patch; the url
\* values go round the paths, from the u-th on.
StatsStore(inp, pd, u) ==
    [p \in StatsPaths |-> Derivation(inp[p],
        [out |-> OutPath(p)]
          @@ (IF pd.some /\ pd.val[1] = p THEN [patches |-> OutPath(pd.val[2])] ELSE << >>)
          @@ UrlEnvs[((p + u) % Len(UrlEnvs)) + 1])]

\* The store of the end-to-end scenario of the specification: A..E are the
\* paths 1..5; A needs B and C, B needs D, C needs E and lists E's out path
\* in `patches`.
ScenarioStore ==
    [p \in 1..5 |-> Derivation(
        CASE p = 1 -> {2, 3} [] p = 2 -> {4} [] p = 3 -> {5} [] OTHER -> {},
        IF p = 3 THEN [out |-> OutPath(p), patches |-> OutPath(5)]
        ELSE [out |-> OutPath(p)])]

\* Every acyclic store over StatsPaths, stores with cycles (with and without
\* the patch that takes the cycle out of the children edges), and the
\* scenario.
InitStats ==
    \/ \E ord \in Orderings(StatsPaths) :
         \E E \in SUBSET ForwardPairs :
           LET inp == AcyclicInputs(ord, E)
           IN \E pd \in {None} \cup { Some(x) : x \in { y \in StatsPaths \X StatsPaths : y[2] \in inp[y[1]] } } :
                \E u \in 0..(Len(UrlEnvs) - 1) :
                  Start(StatsStore(inp, pd, u))
    \/ \E ord \in Orderings(StatsPaths) :
         \E pd \in {None, Some(<<ord[2], ord[3]>>)} :
           \E u \in 0..(Len(UrlEnvs) - 1) :
             Start(StatsStore(CyclicInputs(ord), pd, u))
    \/ Start(ScenarioStore)

SpecStats == InitStats /\ [][Next]_vars

\* ------------------------------------------- translate_url called on its own

\* The atoms of the urls translate_url is called on: the marker, two keys of
\* MIRRORS (the second has a base without a final "/"), a name that is no
\* key, the "/" and a word of a path.
UrlAtoms == {"mirror://", "gnu", "hashedMirrors", "unknownmirror", "/", "x"}

\* The longest url, in atoms.
MaxUrlLen == 7

\* The longest <rest> of the urls "mirror://<alias>/<rest>", in atoms.
MaxRestLen == 3

\* The atoms of the <alias> of such a url: a key of MIRRORS, a name that is no
\* key, and a character MIRROR_URL_REGEX does not take for part of a name.
AliasAtoms == {"gnu", "unknownmirror", "."}

\* The longest <alias>, in atoms.
MaxAliasLen == 3

\* The sequences of at most n members of S.
SeqsUpTo(S, n) == UNION { [1..k -> S] : k \in 0..n }

\* The state before a function is called on `a`, outside any graph.
StartCall(a) ==
    /\ derivations = << >>
    /\ pc = "call"
    /\ todo = {}
    /\ nodes = << >>
    /\ all_child_derivations = {}
    /\ root_nodes = {}
    /\ stats = DefaultStats
    /\ arg = a
    /\ ret = << >>
    /\ NoBuilderState

\* Every url of at most MaxUrlLen atoms, for every key of MIRRORS the urls
\* "mirror://<key>/<rest>", and the urls "mirror://<alias>/<rest>" of every
\* <alias> of at most MaxAliasLen atoms of AliasAtoms.
InitMirror ==
    \/ \E k \in 0..MaxUrlLen :
         \E url \in [1..k -> UrlAtoms] : StartCall(url)
    \/ \E alias \in DOMAIN MIRRORS :
         \E rest \in SeqsUpTo(UrlAtoms, MaxRestLen) :
           StartCall(<<"mirror://", alias, "/">> \o rest)
    \/ \E alias \in SeqsUpTo(AliasAtoms, MaxAliasLen) \ {<< >>} :
         \E rest \in SeqsUpTo(UrlAtoms, MaxRestLen) :
           StartCall(<<"mirror://">> \o alias \o <<"/">> \o rest)

\* translate_url(arg), and translate_url of what it returned.
TranslateUrl ==
    /\ pc \in {"call", "returned"}
    /\ \E r \in {translate_url(IF pc = "call" THEN arg ELSE ret[1])} :
         IF r.panicked
         THEN pc' = "panic" /\ UNCHANGED ret
         ELSE /\ pc' = (IF pc = "call" THEN "returned" ELSE "returned_twice")
              /\ ret' = Append(ret, r.url)
    /\ UNCHANGED <<derivations, todo, nodes, all_child_derivations, root_nodes,
                   stats, arg, builder_vars>>

NextMirror == TranslateUrl

SpecMirror == InitMirror /\ [][NextMirror]_vars

\* ------------------------------------ the inference functions called on a node

\* The values of the `pname`, `name`, `version` and `rev` of a recipe.  No
\* atom of them holds the characters of another.
PnameValues == { <<"zstd">>, <<"source">>, <<"unknown">> }

NameValues == { <<"source">>, <<"zstd", "-", "1.5.5">>, <<"zstd">> }

VersionValues == { <<>>, <<"1.5.5">>, <<"2.12.1">> }

RevValues == { <<>>, <<"v">>, <<"v", "1.5.5">>, <<"1.5.5">>, <<"v", "v", "1.5.5">> }

\* Urls of a recipe whose name or version is looked for: a project of
\* github.com, a GNU project behind a mirror, an archive named by a commit,
\* an archive "<name>-<version>.<ext>", and a mirror that is not in the table.
GithubUrl ==
    <<"https://github.com", "/", "facebook", "/", "zstd", "/", "archive", "/",
      "v", "2.12.1", ".tar.gz">>

GnuUrl == <<"mirror://", "gnu", "/", "hello", "/", "hello", "-", "2.12.1", ".tar.gz">>

ShaUrl ==
    <<"https://example.org", "/", "download", "/",
      "deadbeefdeadbeefdeadbeefdeadbeefdeadbeef", ".tar.gz">>

ArchiveUrl ==
    <<"https://example.org", "/", "download", "/", "hello", "-", "1.5.5", ".tar.gz">>

UnknownMirrorUrl == <<"mirror://", "unknownmirror", "/", "x">>

InferUrls == { GithubUrl, GnuUrl, ShaUrl, ArchiveUrl, UnknownMirrorUrl }

\* The environments that have the key with one of the values, or lack it.
OptEnv(key, values) == { << >> } \cup { (key :> v) : v \in values }

\* The metadata a node may carry.
PackageValues ==
    {None} \cup
    { Some(Package(pn, nm, ve, {})) :
        pn \in { <<"zlib">>, <<"source">> },
        nm \in { <<"zlib", "-", "9.9">>, <<"source">> },
        ve \in { <<>>, <<"9.9">> } }

\* The sources a node may carry: none, one named "source", and that one
\* followed by one named "hello".
SourcesValues ==
    { <<>>,
      << Derivation({}, [pname |-> <<"source">>, url |-> ShaUrl]) >>,
      << Derivation({}, [pname |-> <<"source">>, url |-> ShaUrl]),
         Derivation({}, [name |-> <<"hello">>, url |-> ArchiveUrl]) >> }

\* The `url` values the scheme of a purl is looked for in: one under each
\* prefix of the table, the bare first prefix, a url under no prefix, the
\* empty string, urls behind a mirror, and two urls in one value.
SchemeUrls ==
    { SchemeTable[i].prefix \o <<"/", "x">> : i \in 1..Len(SchemeTable) }
      \cup { SchemeTable[1].prefix,
             <<"https://example.org", "/", "x">>,
             <<>>,
             <<"mirror://", "hackage", "/", "x">>,
             <<"mirror://", "pypi", "/", "x">>,
             SchemeTable[1].prefix \o <<"/", "x", SP>> \o SchemeTable[6].prefix \o <<"/", "y">> }

\* The `urls` values that go with them.
SchemeUrlsLists ==
    { <<>>,
      SchemeTable[10].prefix \o <<"/", "y", SP>> \o SchemeTable[1].prefix \o <<"/", "api">> }

\* A node as the builders make it, with the metadata and the sources given.
NodeOf(derivation, package, sources) ==
    [PackageNode(derivation, {}, {}) EXCEPT !.package = package, !.sources = sources]

\* Every recipe over the name and version values with one of InferUrls or
\* none, with and without metadata and sources; and every recipe over the
\* url values of the scheme table.
InitInfer ==
    \/ \E pn \in OptEnv("pname", PnameValues) :
         \E nm \in OptEnv("name", NameValues) :
           \E ve \in OptEnv("version", VersionValues) :
             \E rv \in OptEnv("rev", RevValues) :
               \E u \in OptEnv("url", InferUrls) :
                 \E package \in PackageValues :
                   \E sources \in SourcesValues :
                     StartCall(NodeOf(Derivation({}, pn @@ nm @@ ve @@ rv @@ u),
                                      package, sources))
    \/ \E pn \in OptEnv("pname", {<<"zstd">>}) :
         \E u \in OptEnv("url", SchemeUrls) :
           \E us \in OptEnv("urls", SchemeUrlsLists) :
             StartCall(NodeOf(Derivation({}, pn @@ u @@ us), None, <<>>))

\* What a call that did not panic leaves: where the run is, and the value
\* returned.
Returned(where, panicked, value) ==
    IF panicked
    THEN pc' = "panic" /\ UNCHANGED ret
    ELSE pc' = where /\ ret' = <<value>>

\* PackageNode::get_name of the node.
NodeGetName ==
    /\ pc = "call"
    /\ \E r \in {PackageNode_get_name(arg)} : Returned("get_name", r.panicked, r.name)
    /\ UNCHANGED <<derivations, todo, nodes, all_child_derivations, root_nodes,
                   stats, arg, builder_vars>>

\* Derivation::get_name of the recipe of the node.
RecipeGetName ==
    /\ pc = "call"
    /\ \E r \in {Derivation_get_name(arg.main_derivation)} :
         Returned("recipe_get_name", r.panicked, r.name)
    /\ UNCHANGED <<derivations, todo, nodes, all_child_derivations, root_nodes,
                   stats, arg, builder_vars>>

\* Derivation::get_version of the recipe of the node.
RecipeGetVersion ==
    /\ pc = "call"
    /\ \E r \in {Derivation_get_version(arg.main_derivation)} :
         Returned("recipe_get_version", r.panicked, r.version)
    /\ UNCHANGED <<derivations, todo, nodes, all_child_derivations, root_nodes,
                   stats, arg, builder_vars>>

\* PackageNode::get_version of the node.
NodeGetVersion ==
    /\ pc = "call"
    /\ \E r \in {PackageNode_get_version(arg)} : Returned("get_version", FALSE, r)
    /\ UNCHANGED <<derivations, todo, nodes, all_child_derivations, root_nodes,
                   stats, arg, builder_vars>>

\* PackageNode::get_purl of the node.
GetPurl ==
    /\ pc = "call"
    /\ \E r \in {get_purl(arg)} : Returned("get_purl", r.panicked, r)
    /\ UNCHANGED <<derivations, todo, nodes, all_child_derivations, root_nodes,
                   stats, arg, builder_vars>>

NextInfer ==
    \/ NodeGetName
    \/ RecipeGetName
    \/ RecipeGetVersion
    \/ NodeGetVersion
    \/ GetPurl

SpecInfer == InitInfer /\ [][NextInfer]_vars

\* ------------------------------------------ get_package_graph and the dumps

\* Number of derivations of the stores both builders are run on (SpecGraph).
NumGraphPaths == 3

GraphPaths == 1..NumGraphPaths

\* The envs of the recipes of SpecGraph, `out` and `patches` apart: a
\* package of the index; a package with a `src`, under another pname in the
\* index; a package with a `src` the index does not know; a fetch of an
\* archive, nameless; a recipe with nothing; a fetch named "source"; an
\* inline script; a fetch from a mirror that is not in the table; a package
\* of the standard environment.
GraphEnvs ==
    << [pname |-> <<"zstd">>, version |-> <<"1.5.5">>],
       [pname |-> <<"hello">>, src |-> <<"/", "src">>],
       [pname |-> <<"libjxl">>, src |-> <<"/", "src">>],
       [name |-> <<"source">>, url |-> ShaUrl],
       << >>,
       [pname |-> <<"source">>, url |-> ArchiveUrl],
       [name |-> <<"script">>, text |-> <<"echo">>],
       [urls |-> UnknownMirrorUrl],
       [pname |-> <<"zlib">>] >>

\* The metadata indexes of SpecGraph: the empty one (metadata disabled), and
\* one with three packages, each under its `name` as get_packages stores it.
FullIndex ==
    (<<"zstd">> :> Package(<<"zstd">>, <<"zstd">>, <<"1.5.5">>, {}))
      @@ (<<"hello">> :> Package(<<"zlib">>, <<"hello">>, <<"9.9">>, {"broken", "unfree"}))
      @@ (<<"source">> :> Package(<<"source">>, <<"source">>, <<>>, {}))

IndexValues == { << >>, FullIndex }

\* A store of SpecGraph: the derivation at p has the inputs inp[p], its own
\* `out`, the env GraphEnvs[e[p]], and the one at pd[1] (if any) declares the
\* out path of pd[2] as its only patch.
GraphStore(inp, e, pd) ==
    [p \in GraphPaths |-> Derivation(inp[p],
        [out |-> OutPath(p)]
          @@ (IF pd.some /\ pd.val[1] = p THEN [patches |-> OutPath(pd.val[2])] ELSE << >>)
          @@ GraphEnvs[e[p]])]

\* The state before a builder runs on the store with the metadata index:
\* where is "legacy_nodes" for get_package_graph, "nodes" for
\* get_package_graph_next.
StartBuild(store, index, where) ==
    /\ derivations = store
    /\ pc = where
    /\ todo = DOMAIN store
    /\ nodes = << >>
    /\ all_child_derivations = {}
    /\ root_nodes = {}
    /\ stats = DefaultStats
    /\ arg = None
    /\ ret = << >>
    /\ packages = index
    /\ current_node = None
    /\ child_derivation_paths = {}
    /\ visited_derivations = {}

\* The two builders.
Builders == {"legacy_nodes", "nodes"}

\* Every shape of inputs over the paths (cycles included; the last recipe
\* may also name a path the store lacks) with three runs of the envs over
\* the paths; and a chain and a fan with every env below the first recipe, which
\* may declare one of the others as its patch.
InitGraph ==
    \/ \E inp \in [GraphPaths -> SUBSET GraphPaths] :
         \E dangling \in BOOLEAN :
           \E u \in {0, 3, 6} :
             \E index \in IndexValues :
               \E where \in Builders :
                 StartBuild(
                     GraphStore(
                         [p \in GraphPaths |->
                             IF dangling /\ p = NumGraphPaths
                             THEN inp[p] \cup {NumGraphPaths + 1} ELSE inp[p]],
                         [p \in GraphPaths |-> ((p + u) % Len(GraphEnvs)) + 1],
                         None),
                     index, where)
    \/ \E inp \in { [p \in GraphPaths |-> IF p < NumGraphPaths THEN {p + 1} ELSE {}],
                     [p \in GraphPaths |-> IF p = 1 THEN GraphPaths \ {1} ELSE {}] } :
         \E e \in [GraphPaths -> 1..Len(GraphEnvs)] :
           \E pd \in {None} \cup { Some(<<1, q>>) : q \in GraphPaths \ {1} } :
             \E index \in IndexValues :
               \E where \in Builders :
                 /\ e[1] \in {1, 5}
                 /\ StartBuild(GraphStore(inp, e, pd), index, where)

\* BTreeSet::pop_last: the greatest path of the set.
PopLast(S) == CHOOSE x \in S : \A y \in S : y <= x

\* `visited_derivations.insert(child_derivation_path.clone())`
VisitedInsert(visited, child_derivation_path) == visited \cup {child_derivation_path}

\* The head of an iteration of the outer loop of get_package_graph (lines
\* 1130-1156), for a derivation the HashMap yields in any order: a recipe
\* without a name is passed over.
LegacyStartNode ==
    /\ pc = "legacy_nodes"
    /\ current_node = None
    /\ \E derivation_path \in todo :
         \E r \in {Derivation_get_name(derivations[derivation_path])} :
           IF r.panicked
           THEN /\ pc' = "panic"
                /\ UNCHANGED <<todo, current_node, child_derivation_paths>>
           ELSE IF ~r.name.some
           THEN /\ todo' = todo \ {derivation_path}
                /\ UNCHANGED <<pc, current_node, child_derivation_paths>>
           ELSE /\ todo' = todo \ {derivation_path}
                /\ current_node' =
                      Some([ path |-> derivation_path,
                             node |-> LegacyNode(derivations[derivation_path], r.name.val,
                                                 packages) ])
                /\ child_derivation_paths' = derivations[derivation_path].input_derivations
                /\ UNCHANGED pc
    /\ visited_derivations' = {}
    /\ UNCHANGED <<derivations, nodes, all_child_derivations, root_nodes, stats, arg, ret,
                   packages>>

\* One iteration of the while loop of get_package_graph (lines 1158-1202).
\* The pop comes before the unwrap of derivations.get(..), which panics on
\* an input the store lacks.
LegacyVisit ==
    /\ pc = "legacy_nodes"
    /\ current_node.some
    /\ child_derivation_paths # {}
    /\ \E child_derivation_path \in {PopLast(child_derivation_paths)} :
         IF child_derivation_path \in visited_derivations
         THEN /\ child_derivation_paths' = child_derivation_paths \ {child_derivation_path}
              /\ UNCHANGED <<pc, current_node, visited_derivations>>
         ELSE /\ visited_derivations' = VisitedInsert(visited_derivations, child_derivation_path)
              /\ IF child_derivation_path \notin DOMAIN derivations
                 THEN /\ pc' = "panic"
                      /\ child_derivation_paths' =
                            child_derivation_paths \ {child_derivation_path}
                      /\ UNCHANGED current_node
                 ELSE \E r \in {VisitChild(current_node.val.node, child_derivation_path,
                                           derivations[child_derivation_path],
                                           Derivation_get_name(derivations[child_derivation_path]),
                                           packages,
                                           get_patches(current_node.val.node.main_derivation))} :
                        IF r.panicked
                        THEN /\ pc' = "panic"
                             /\ child_derivation_paths' =
                                   child_derivation_paths \ {child_derivation_path}
                             /\ UNCHANGED current_node
                        ELSE /\ current_node' = Some([current_node.val EXCEPT !.node = r.node])
                             /\ child_derivation_paths' =
                                   (child_derivation_paths \ {child_derivation_path})
                                     \cup (IF r.expand
                                           THEN derivations[child_derivation_path].input_derivations
                                           ELSE {})
                             /\ UNCHANGED pc
    /\ UNCHANGED <<derivations, todo, nodes, all_child_derivations, root_nodes, stats,
                   arg, ret, packages>>

\* `response.nodes.insert(derivation_path.clone(), current_node)` (line
\* 1203), once the worklist is empty.
LegacyFinishNode ==
    /\ pc = "legacy_nodes"
    /\ current_node.some
    /\ child_derivation_paths = {}
    /\ nodes' = (current_node.val.path :> current_node.val.node) @@ nodes
    /\ current_node' = None
    /\ visited_derivations' = {}
    /\ UNCHANGED <<derivations, pc, todo, all_child_derivations, root_nodes, stats,
                   arg, ret, packages, child_derivation_paths>>

\* The return of get_package_graph (line 1205): it leaves root_nodes empty.
LegacyReturn ==
    /\ pc = "legacy_nodes"
    /\ current_node = None
    /\ todo = {}
    /\ pc' = "built"
    /\ UNCHANGED <<derivations, todo, nodes, all_child_derivations, root_nodes, stats,
                   arg, ret, builder_vars>>

\* The display options pretty_print is called with: those of
\* Format::PrettyPrint (format.rs) come first; the others switch each
\* option the other way.
DisplayOptionsValues ==
    { DisplayOptions(FALSE, TRUE, Some(1)),
      DisplayOptions(TRUE, FALSE, Some(1)),
      DisplayOptions(FALSE, FALSE, None),
      DisplayOptions(TRUE, TRUE, None) }

\* PackageGraph::pretty_print(0, display_options) on the graph built.  arg
\* keeps the options, ret what was printed.
PrettyPrint ==
    /\ pc = "built"
    /\ \E display_options \in DisplayOptionsValues :
         \E r \in {PackageGraph_pretty_print(nodes, 0, display_options)} :
           /\ pc' = IF r.ended = "" THEN "printed" ELSE r.ended
           /\ arg' = Some(display_options)
           /\ ret' = <<r>>
    /\ UNCHANGED <<derivations, todo, nodes, all_child_derivations, root_nodes, stats,
                   builder_vars>>

\* The inputs of the second and of the third recipe of the stores of
\* SpecWorklist: chains, cycles through the first and the second recipe,
\* recipes that list themselves, and a path the store lacks.
WorklistInputs2 == { {3}, {2, 3}, {1, 3} }
WorklistInputs3 == { {}, {2}, {1, 2}, {3}, {NumGraphPaths + 1} }

\* get_package_graph alone, with the full index: a package with the second
\* recipe as input, which may be its patch; the second recipe is a recipe
\* with nothing, a fetch named "source" or a fetch from an unknown mirror,
\* and so is the third, which may also be a package.
InitWorklist ==
    \E i2 \in WorklistInputs2 :
      \E i3 \in WorklistInputs3 :
        \E e2 \in {5, 6, 8} :
          \E e3 \in {1, 5, 6, 8} :
            \E pd \in {None, Some(<<1, 2>>)} :
              StartBuild(
                  GraphStore(
                      [p \in GraphPaths |->
                          IF p = 1 THEN {2} ELSE IF p = 2 THEN i2 ELSE IF p = 3 THEN i3 ELSE {}],
                      [p \in GraphPaths |->
                          IF p = 1 THEN 1 ELSE IF p = 2 THEN e2 ELSE IF p = 3 THEN e3 ELSE 5],
                      pd),
                  FullIndex, "legacy_nodes")

NextWorklist ==
    \/ LegacyStartNode
    \/ LegacyVisit
    \/ LegacyFinishNode
    \/ LegacyReturn

\* The builder is a sequential loop: as long as it has a next step, it
\* takes it.
SpecWorklist == InitWorklist /\ [][NextWorklist]_vars /\ WF_vars(NextWorklist)

\* The DumpOptions a dump is called with: the default, and what
\* --runtime-only and --no-pretty make of it.
DumpOptionsValues ==
    { DumpOptions(FALSE, None), DumpOptions(TRUE, Some(FALSE)) }

\* The serialization formats and options cyclone_dx::dump is called with,
\* and whether the nodes of the graph have build inputs.
CycloneDxCalls ==
    { [format |-> "JSON", options |-> DumpOptions(FALSE, None), build_inputs |-> FALSE],
      [format |-> "JSON", options |-> DumpOptions(FALSE, None), build_inputs |-> TRUE],
      [format |-> "JSON", options |-> DumpOptions(TRUE, Some(FALSE)), build_inputs |-> TRUE],
      [format |-> "YAML", options |-> DumpOptions(FALSE, None), build_inputs |-> FALSE],
      [format |-> "XML",  options |-> DumpOptions(FALSE, None), build_inputs |-> FALSE] }

\* The build inputs the nodes of a graph may have, a field the builders of
\* nix.rs do not fill: none, or for every node the nodes that are neither
\* the node nor its children.
BuildInputs(package_nodes, given) ==
    IF given
    THEN [p \in DOMAIN package_nodes |->
            (DOMAIN package_nodes \ {p}) \ package_nodes[p].children]
    ELSE [p \in DOMAIN package_nodes |-> {}]

BuildInputsValues(package_nodes) == { BuildInputs(package_nodes, given) : given \in BOOLEAN }

\* cyclone_dx::dump on the graph built, in a serialization format and with
\* options, the map yielding the nodes in any order.  arg keeps the format,
\* the options and the build inputs, ret the document.
CycloneDxDump ==
    /\ pc = "built"
    /\ \E call \in CycloneDxCalls :
         \E ks \in Orderings(DOMAIN nodes),
            build_inputs \in {BuildInputs(nodes, call.build_inputs)} :
           \E r \in {cyclone_dx_dump(ks, nodes, build_inputs, call.format, call.options)} :
             /\ pc' = IF r.ended = "" THEN "cyclonedx_dumped" ELSE r.ended
             /\ arg' = Some([format |-> call.format, options |-> call.options,
                             build_inputs |-> build_inputs])
             /\ ret' = <<r>>
    /\ UNCHANGED <<derivations, todo, nodes, all_child_derivations, root_nodes, stats,
                   builder_vars>>

\* spdx::dump on the graph built, with options.  arg keeps the options, ret
\* the document.
SpdxDump ==
    /\ pc = "built"
    /\ \E options \in DumpOptionsValues :
         \E r \in {spdx_dump(nodes, root_nodes, options)} :
           /\ pc' = IF r.ended = "" THEN "spdx_dumped" ELSE r.ended
           /\ arg' = Some(options)
           /\ ret' = <<r>>
    /\ UNCHANGED <<derivations, todo, nodes, all_child_derivations, root_nodes, stats,
                   builder_vars>>

\* The fields of the nodes that native::dump reads and the builders of
\* nix.rs do not fill.  sourced: every node has a source_derivation, its own
\* path; named: every node has a name, else every node but the last; with
\* url: every node has a url and a git url.
NativeFieldsOf(package_nodes, sourced, named, with_url) ==
    IF ~sourced
    THEN [p \in DOMAIN package_nodes |-> NativeFields(None, None, None, {})]
    ELSE IF with_url
    THEN [p \in DOMAIN package_nodes |->
            NativeFields(Some(p), Some(<<"hello">>),
                         Some(<<"https://example.org", "/", "x">>),
                         {<<"https://github.com", "/", "x">>})]
    ELSE IF named
    THEN [p \in DOMAIN package_nodes |-> NativeFields(Some(p), Some(<<"hello">>), None, {})]
    ELSE [p \in DOMAIN package_nodes |->
            NativeFields(Some(p),
                         IF \A q \in DOMAIN package_nodes : q <= p
                         THEN None ELSE Some(<<"hello">>),
                         None, {})]

NativeFieldsValues(package_nodes) ==
    { NativeFieldsOf(package_nodes, FALSE, FALSE, FALSE),
      NativeFieldsOf(package_nodes, TRUE, TRUE, FALSE),
      NativeFieldsOf(package_nodes, TRUE, TRUE, TRUE),
      NativeFieldsOf(package_nodes, TRUE, FALSE, FALSE) }

\* native::dump on the graph built, as the arm Format::Native calls it, with
\* options.  arg keeps the options and the fields, ret the document.
NativeDump ==
    /\ pc = "built"
    /\ \E options \in DumpOptionsValues, fields \in NativeFieldsValues(nodes) :
         \E r \in {Format_Native_dump(nodes, fields, options)} :
           /\ pc' = IF r.ended = "" THEN "native_dumped" ELSE r.ended
           /\ arg' = Some([options |-> options, fields |-> fields])
           /\ ret' = <<r>>
    /\ UNCHANGED <<derivations, todo, nodes, all_child_derivations, root_nodes, stats,
                   builder_vars>>

\* The library called by a program other than main: get_package_graph
\* with a metadata index (as tests/run-tests.rs calls it) or
\* get_package_graph_next, then one of the readers of the graph, which are
\* the arms of format::Format::dump.  The run of main, with its transform
\* between the builder and the dump, is NextMain.
NextGraph ==
    \/ LegacyStartNode
    \/ LegacyVisit
    \/ LegacyFinishNode
    \/ LegacyReturn
    \/ BuildNode
    \/ ComputeRoots
    \/ GetStats
    \/ PrettyPrint
    \/ CycloneDxDump
    \/ SpdxDump
    \/ NativeDump

SpecGraph == InitGraph /\ [][NextGraph]_vars

\* ------------------------------------------------------------ a run of main

\* The stores `nix derivation show` prints: a package with a package as
\* input, and one recipe with no name.
MainStores ==
    { << Derivation({2}, [out |-> OutPath(1), pname |-> <<"hello">>, version |-> <<"1.5.5">>]),
         Derivation({}, [out |-> OutPath(2), pname |-> <<"zstd">>]) >>,
      << Derivation({}, [out |-> OutPath(1)]) >> }

\* What `nix derivation show` gives: it cannot be started; it fails, with a
\* stderr that is UTF-8 or not; it prints what does not parse; it prints a
\* store.
NixOutputs ==
    { Output(FALSE, FALSE, TRUE, None),
      Output(TRUE, FALSE, TRUE, None),
      Output(TRUE, FALSE, FALSE, None),
      Output(TRUE, TRUE, TRUE, None) }
      \cup { Output(TRUE, TRUE, TRUE, Some(store)) : store \in MainStores }

\* The metadata `nix-env` prints (or the file holds), under its attribute
\* paths.
RawPackages ==
    (<<"nixpkgs", ".", "hello">> :> Package(<<"hello">>, <<"hello">>, <<"1.5.5">>, {"insecure"}))
      @@ (<<"nixpkgs", ".", "zstd">> :> Package(<<"zstd">>, <<"zstd">>, <<"1.5.5">>, {}))

\* What `nix-env` (or the read of the metadata file) gives: it cannot be
\* started (read); it fails and prints what does not parse, or what does;
\* it succeeds and prints what does not parse, or what does.
MetadataOutputs ==
    { Output(FALSE, FALSE, TRUE, None),
      Output(TRUE, FALSE, TRUE, None),
      Output(TRUE, FALSE, TRUE, Some(RawPackages)),
      Output(TRUE, TRUE, TRUE, None),
      Output(TRUE, TRUE, TRUE, Some(RawPackages)) }

\* The values of --format and of --serialization-format.
FormatArgs ==
    { None, Some(<<"pretty">>), Some(<<"stats">>), Some(<<"spdx">>), Some(<<"out-paths">>),
      Some(<<"bogus">>) }
SerializationFormatArgs == { None, Some(<<"xml">>), Some(<<"bogus">>) }

\* struct NixToSBOM, with what the outer world answers to the run: the
\* outputs of the two loaders, and whether PackageGraph::transform returns
\* Ok.
Run(format, serialization_format, nix_ref, current_system, meta, metadata_path,
    no_pretty, runtime_only, nix, metadata, transform_ok) ==
    [ format |-> format, serialization_format |-> serialization_format,
      nix_ref |-> nix_ref, current_system |-> current_system, meta |-> meta,
      metadata_path |-> metadata_path, no_pretty |-> no_pretty,
      runtime_only |-> runtime_only, nix |-> nix, metadata |-> metadata,
      transform_ok |-> transform_ok ]

\* `let mut dump_options` of main (lines 106-110).
MainDumpOptions(args) ==
    DumpOptions(args.runtime_only, IF args.no_pretty THEN Some(FALSE) ELSE None)

\* eprintln!, and println!
Stderr(text) == [stream |-> "stderr", text |-> text]
Stdout(text) == [stream |-> "stdout", text |-> text]

\* Before main runs: nothing is loaded, nothing is written.  arg keeps the
\* run, ret what the run wrote.
InitMain ==
    \E format \in FormatArgs, serialization_format \in SerializationFormatArgs :
      \E nix_ref, current_system, meta, metadata_path, transform_ok \in BOOLEAN :
       \E no_pretty, runtime_only \in BOOLEAN :
        \E nix \in NixOutputs, metadata \in MetadataOutputs :
          /\ derivations = << >>
          /\ pc = "main"
          /\ todo = {}
          /\ nodes = << >>
          /\ all_child_derivations = {}
          /\ root_nodes = {}
          /\ stats = DefaultStats
          /\ arg = Some(Run(format, serialization_format, nix_ref, current_system, meta,
                            metadata_path, no_pretty, runtime_only, nix, metadata,
                            transform_ok))
          /\ ret = << >>
          /\ NoBuilderState

\* main, up to the loaders (lines 58-78): an invalid format ends the run.
MainParseFormats ==
    /\ pc = "main"
    /\ \E output_format \in {OutputFormat(arg.val)} :
         IF ~output_format.some
         THEN /\ pc' = "exit_failure"
              /\ ret' = Append(ret, Stderr(<<"Invalid format ">> \o arg.val.format.val))
         ELSE IF ~SerializationFormat(arg.val, output_format.val).some
         THEN /\ pc' = "exit_failure"
              /\ ret' = Append(ret, Stderr(<<"Invalid serialization format ">>
                                                 \o arg.val.serialization_format.val))
         ELSE pc' = "get_derivations" /\ UNCHANGED ret
    /\ UNCHANGED <<derivations, todo, nodes, all_child_derivations, root_nodes, stats, arg,
                   builder_vars>>

\* `let derivations = ..` of main (lines 80-90): the `?` returns the error
\* of the loader from main.
MainGetDerivations ==
    /\ pc = "get_derivations"
    /\ IF ~arg.val.nix_ref /\ ~arg.val.current_system
       THEN /\ pc' = "exit_failure"
            /\ ret' = Append(ret, Stderr(<<"Error: Must provide a file or use the --curent-system argument">>))
            /\ UNCHANGED derivations
       ELSE \E r \in {get_derivations(arg.val.nix)} :
              IF r.ended = ""
              THEN pc' = "get_packages" /\ derivations' = r.value /\ UNCHANGED ret
              ELSE IF r.ended = "err"
              THEN /\ pc' = "main_err"
                   /\ ret' = Append(ret, Stderr(<<"Error: ">> \o r.message))
                   /\ UNCHANGED derivations
              ELSE pc' = "panic" /\ UNCHANGED <<ret, derivations>>
    /\ UNCHANGED <<todo, nodes, all_child_derivations, root_nodes, stats, arg, builder_vars>>

\* `let packages = get_packages(args.metadata_path, !args.meta)?` (line 92),
\* and the start of get_package_graph(&derivations) (line 96), which takes
\* the store alone as get_package_graph_next does.
MainGetPackages ==
    /\ pc = "get_packages"
    /\ \E r \in get_packages(arg.val.metadata_path, ~arg.val.meta, arg.val.metadata) :
         IF r.ended = ""
         THEN /\ pc' = "nodes"
              /\ packages' = r.value
              /\ todo' = DOMAIN derivations
              /\ UNCHANGED ret
         ELSE /\ pc' = "main_err"
              /\ ret' = Append(ret, Stderr(<<"Error: ">> \o r.message))
              /\ UNCHANGED <<packages, todo>>
    /\ UNCHANGED <<derivations, nodes, all_child_derivations, root_nodes, stats, arg,
                   current_node, child_derivation_paths, visited_derivations>>

\* `package_graph.transform(&packages)?` (line 102), which nix.rs does not
\* hold: the graph is taken as it is, and the run says whether it returns
\* Ok.
MainTransform ==
    /\ pc = "built"
    /\ IF arg.val.transform_ok
       THEN pc' = "transformed" /\ UNCHANGED ret
       ELSE pc' = "main_err" /\ ret' = Append(ret, Stderr(<<"Error: ">>))
    /\ UNCHANGED <<derivations, todo, nodes, all_child_derivations, root_nodes, stats, arg,
                   builder_vars>>

\* The end of main (lines 104-122): the dump, and the println! of what it
\* returned; an Err is written to stderr.
MainDump ==
    /\ pc = "transformed"
    /\ \E output_format \in {OutputFormat(arg.val).val} :
         \E ks \in Orderings(DOMAIN nodes), build_inputs \in BuildInputsValues(nodes) :
           \E r \in {Format_dump(output_format,
                                 SerializationFormat(arg.val, output_format).val,
                                 ks, nodes, root_nodes, build_inputs,
                                 MainDumpOptions(arg.val))} :
             IF r.ended = ""
             THEN pc' = "exit_success" /\ ret' = Append(ret, Stdout(r.value))
             ELSE IF r.ended = "err"
             THEN pc' = "exit_failure" /\ ret' = Append(ret, Stderr(r.message))
             ELSE pc' = "panic" /\ UNCHANGED ret
    /\ UNCHANGED <<derivations, todo, nodes, all_child_derivations, root_nodes, stats, arg,
                   builder_vars>>

NextMain ==
    \/ MainParseFormats
    \/ MainGetDerivations
    \/ MainGetPackages
    \/ BuildNode
    \/ ComputeRoots
    \/ MainTransform
    \/ MainDump

SpecMain == InitMain /\ [][NextMain]_vars

\* -------------------------------------------------------------- properties

\* get_package_graph_next returned: the run is past both loops.
GraphBuilt == pc \in {"built", "done", "stack_overflow", "stats_panic"}

\* Every input of every derivation of the store is a key of the store.
StoreClosed ==
    \A p \in DOMAIN derivations :
        derivations[p].input_derivations \subseteq DOMAIN derivations

\* The paths that some node has among its children or its patches.
Referenced ==
    UNION { nodes[n].children \cup nodes[n].patches : n \in DOMAIN nodes }

\* The least set of paths that holds S and the children of its members.
RECURSIVE ChildrenClosure(_, _)
ChildrenClosure(S, package_nodes) ==
    LET T == S \cup UNION { package_nodes[n].children : n \in S \cap DOMAIN package_nodes }
    IN IF T = S THEN S ELSE ChildrenClosure(T, package_nodes)

\* No node reaches itself along children edges.
GraphAcyclic ==
    \A n \in DOMAIN nodes : n \notin ChildrenClosure(nodes[n].children, nodes)

\* The paths that k children edges lead to, from the paths S.
RECURSIVE StepsFrom(_, _)
StepsFrom(S, k) ==
    IF k = 0 THEN S
    ELSE StepsFrom(UNION { nodes[n].children : n \in S \cap DOMAIN nodes }, k - 1)

MaxOf(S) == CHOOSE x \in S : \A y \in S : y <= x

\* ---- C1

\* C1: for a store whose inputs all exist, once the graph is built the roots
\* and the paths referenced as a child or a patch of some node are disjoint,
\* and together they are exactly the keys of the store.
C1_RootsComplementReferenced ==
    (GraphBuilt /\ StoreClosed) =>
        /\ root_nodes \cap Referenced = {}
        /\ root_nodes \cup Referenced = DOMAIN derivations

\* A built graph with a root, and a node that is referenced only as a patch.
C1_Witness ==
    /\ GraphBuilt /\ StoreClosed
    /\ root_nodes # {}
    /\ \E n \in DOMAIN nodes : \E q \in nodes[n].patches :
         \A m \in DOMAIN nodes : q \notin nodes[m].children

\* ---- C2

\* C2: at every moment of the build and after it, no path is both a child
\* and a patch of the same node.
C2_ChildrenPatchesDisjoint ==
    \A n \in DOMAIN nodes : nodes[n].children \cap nodes[n].patches = {}

\* A node that has a child and a patch.
C2_Witness ==
    \E n \in DOMAIN nodes : nodes[n].children # {} /\ nodes[n].patches # {}

\* ---- C3

\* e is an entry of the space-separated list s: a piece of s that holds no
\* space and has the ends of s or spaces around it.
IsEntry(e, s) ==
    \E i \in 1..(Len(s) + 1) : \E j \in (i - 1)..Len(s) :
        /\ i = 1 \/ s[i - 1] = SP
        /\ j = Len(s) \/ s[j + 1] = SP
        /\ \A k \in i..j : s[k] # SP
        /\ e = [k \in 1..(j - i + 1) |-> s[i + k - 1]]

\* The inputs of the derivation r whose `out` is an entry of r's `patches`.
PatchInputs(r) ==
    { i \in r.input_derivations \cap DOMAIN derivations :
        /\ EnvGet(r.env, "patches").some
        /\ EnvGet(derivations[i].env, "out").some
        /\ IsEntry(derivations[i].env.out, r.env.patches) }

\* C3: the patches of every node are exactly the inputs of its derivation
\* whose `out` is an entry of the derivation's `patches` list, and its
\* children are exactly all the other inputs.
C3_PatchesAreMatchingInputs ==
    \A n \in DOMAIN nodes :
        /\ nodes[n].patches = PatchInputs(derivations[n])
        /\ nodes[n].children = derivations[n].input_derivations \ PatchInputs(derivations[n])

\* A node built from a `patches` list of several entries, with a patch, a
\* child, and an input that has no `out` at all.
C3_Witness ==
    \E n \in DOMAIN nodes :
        /\ Len(get_patches(derivations[n])) >= 2
        /\ nodes[n].patches # {}
        /\ \E c \in nodes[n].children : ~EnvGet(derivations[c].env, "out").some

\* ---- C4

\* C4: with an input that is absent from the store, the build is under way
\* or has ended in an error value: it has neither panicked nor returned.
C4_DanglingInputEndsInError ==
    ~StoreClosed => pc \in {"nodes", "error"}

\* ---- C5

RECURSIVE BuildInOrder(_, _, _)
\* The first loop of the builder run over the paths ks, inner loops in
\* ascending order.
BuildInOrder(ks, derivs, acc) ==
    IF ks = <<>> THEN acc
    ELSE LET r == ClassifyInputs(SortedSeq(derivs[Head(ks)].input_derivations), derivs,
                                 get_patches(derivs[Head(ks)]),
                                 EmptyEdges(acc.all_child_derivations))
         IN BuildInOrder(Tail(ks), derivs,
                [ nodes |-> acc.nodes @@
                      (Head(ks) :> PackageNode(derivs[Head(ks)], r.children, r.patches)),
                  all_child_derivations |-> r.all_child_derivations ])

\* The graph of the store when every loop runs in ascending order.
AscendingGraph ==
    BuildInOrder(SortedSeq(DOMAIN derivations), derivations,
                 [nodes |-> << >>, all_child_derivations |-> {}])

RECURSIVE WorklistAlone(_, _, _)
\* The node that the worklist traversal gives from the node so far, the
\* worklist W and the visited set V, by the store and the index alone.
WorklistAlone(node, W, V) ==
    IF W = {} THEN node
    ELSE LET x == PopLast(W)
         IN IF x \in V THEN WorklistAlone(node, W \ {x}, V)
            ELSE IF x \notin DOMAIN derivations THEN node
            ELSE LET r == VisitChild(node, x, derivations[x],
                                     Derivation_get_name(derivations[x]), packages,
                                     get_patches(node.main_derivation))
                 IN IF r.panicked THEN node
                    ELSE WorklistAlone(r.node,
                             (W \ {x}) \cup (IF r.expand THEN derivations[x].input_derivations
                                             ELSE {}),
                             V \cup {x})

\* The node of the recipe at p as its own inputs and the index give it.
NodeAlone(p) ==
    WorklistAlone(LegacyNode(derivations[p], Derivation_get_name(derivations[p]).name.val,
                             packages),
                  derivations[p].input_derivations, {})

\* Every node get_package_graph_next has built is the node the ascending
\* order builds, and its first loop ends with a node for every recipe.
NextNodesAsAscending ==
    (pc = "nodes" /\ StoreClosed) =>
        /\ \A n \in DOMAIN nodes : nodes[n] = AscendingGraph.nodes[n]
        /\ todo = {} => DOMAIN nodes = DOMAIN derivations

\* The recipes get_package_graph builds a node for: those with a name.
NamedRecipes ==
    { p \in DOMAIN derivations : Derivation_get_name(derivations[p]).name.some }

\* Every node get_package_graph has built (package, children, patches and
\* sources) is the node its own recipe, the store and the index give, in
\* whatever order the recipes were taken; its outer loop ends with a node
\* for every named recipe, and it leaves root_nodes empty.
LegacyNodesAsAlone ==
    pc = "legacy_nodes" =>
        /\ \A n \in DOMAIN nodes : nodes[n] = NodeAlone(n)
        /\ root_nodes = {}
        /\ (todo = {} /\ current_node = None) => DOMAIN nodes = NamedRecipes

\* A builder returns the nodes it has built; the roots of
\* get_package_graph_next are those the ascending order gives.  What reads
\* the graph afterwards leaves it as it is.
ReturnedAsBuilt ==
    /\ (pc = "nodes" /\ pc' \in {"built", "panic"}) =>
          /\ nodes' = nodes
          /\ (pc' = "built" /\ StoreClosed) =>
                root_nodes' = RootNodes(SortedSeq(DOMAIN derivations),
                                        AscendingGraph.all_child_derivations)
    /\ (pc = "legacy_nodes" /\ pc' \in {"built", "panic"}) =>
          nodes' = nodes /\ root_nodes' = root_nodes
    /\ pc \notin Builders => nodes' = nodes /\ root_nodes' = root_nodes

\* C5: with either builder, whatever order the store and the inputs are
\* iterated in, every node built is the one node the store and the metadata
\* index determine (same children, patches and sources), and the graph
\* returned has these nodes and the one set of roots: any two orders give
\* equal graphs.
C5_BuildIsOrderIndependent ==
    /\ [](NextNodesAsAscending /\ LegacyNodesAsAlone)
    /\ [][ReturnedAsBuilt]_vars

\* get_package_graph has built, before the node of a lower path, a node with
\* metadata and a source.
C5_Witness ==
    /\ pc = "legacy_nodes"
    /\ packages # << >>
    /\ \E n \in DOMAIN nodes :
         /\ nodes[n].package.some
         /\ nodes[n].sources # <<>>
         /\ \E m \in todo : m < n

\* get_package_graph_next has built, before the node of the first recipe,
\* a node with a child.
C5_NextOutOfOrder ==
    /\ pc = "nodes"
    /\ 1 \in todo
    /\ \E n \in DOMAIN nodes : nodes[n].children # {}

\* ---- C6

\* get_stats returned for the graph of the end-to-end scenario.
ScenarioDone == derivations = ScenarioStore /\ pc = "done"

\* C6, as stated: in the scenario the only root is A, the children of A are
\* B and C, the only patch of C is E, and the reachable count of A is 5.
C6_ScenarioCountsFive ==
    ScenarioDone =>
        /\ root_nodes = {1}
        /\ nodes[1].children = {2, 3}
        /\ nodes[3].patches = {5}
        /\ stats.reachable_nodes_count[1] = 5

\* C6, amended: in the scenario the only root is A, the children of A are B
\* and C, the only patch of C is E, and the reachable count of A is 4 (A, B,
\* C and D: E is a patch, and patches are not followed).
C6_ScenarioCountsFour ==
    ScenarioDone =>
        /\ root_nodes = {1}
        /\ nodes[1].children = {2, 3}
        /\ nodes[3].patches = {5}
        /\ nodes[3].children = {}
        /\ stats.reachable_nodes_count = (1 :> 4)

C6_Witness == ScenarioDone /\ DOMAIN stats.reachable_nodes_count = {1}

\* ---- C7

\* The length of what get_longest_path returns for the node n.
LongestPathLength(n) == Len(get_longest_path(n, nodes, << >>, 1).path)

\* C7, as stated: in an acyclic graph the longest path length of a node is 0
\* without children, else 1 + the greatest of its children's lengths.
C7_LeafLengthZero ==
    (pc = "done" /\ GraphAcyclic) =>
        \A n \in DOMAIN nodes :
            LongestPathLength(n) =
                IF nodes[n].children = {} THEN 0
                ELSE 1 + MaxOf({ LongestPathLength(c) : c \in nodes[n].children })

\* C7, amended: in an acyclic graph the longest path length of a node is 1
\* without children (the sequence holds the node itself), else 1 + the
\* greatest of its children's lengths; get_stats records that length for
\* every root.
C7_LeafLengthOne ==
    (pc = "done" /\ GraphAcyclic) =>
        /\ \A n \in DOMAIN nodes :
              LongestPathLength(n) =
                  IF nodes[n].children = {} THEN 1
                  ELSE 1 + MaxOf({ LongestPathLength(c) : c \in nodes[n].children })
        /\ \A r \in root_nodes : stats.longest_path_length[r] = LongestPathLength(r)

\* A root whose first child has a shorter longest path than a later child,
\* and a node without children.
C7_Witness ==
    /\ pc = "done" /\ GraphAcyclic
    /\ \E r \in root_nodes : \E c, d \in nodes[r].children :
         c < d /\ LongestPathLength(c) < LongestPathLength(d)
    /\ \E n \in DOMAIN nodes : nodes[n].children = {}

\* ---- C8

\* What get_reachable_nodes_count returns for the node n and an empty
\* visited set.
ReachableCount(n) == get_reachable_nodes_count(n, nodes, {}, 1).count

\* C8: in an acyclic graph the reachable count of a node, from an empty
\* visited set, is the number of distinct nodes its children edges lead to,
\* itself included; it is 1 for a node without children; get_stats records
\* it for every root.
C8_ReachableCountIsClosureSize ==
    (pc = "done" /\ GraphAcyclic) =>
        /\ \A n \in DOMAIN nodes :
              /\ ReachableCount(n) = Cardinality(ChildrenClosure({n}, nodes))
              /\ nodes[n].children = {} => ReachableCount(n) = 1
        /\ \A r \in root_nodes :
              stats.reachable_nodes_count[r] = Cardinality(ChildrenClosure({r}, nodes))

\* A root with two children that lead to the same node, next to a node that
\* has a patch and no child.
C8_Witness ==
    /\ pc = "done" /\ GraphAcyclic
    /\ \E r \in root_nodes : \E c, d \in nodes[r].children :
         /\ c # d
         /\ ChildrenClosure({c}, nodes) \cap ChildrenClosure({d}, nodes) # {}
    /\ \E n \in DOMAIN nodes : nodes[n].patches # {} /\ nodes[n].children = {}

\* ---- C9

\* path starts at r, follows children edges, ends at a node without
\* children, and no children-only path from r has more nodes.
IsLongestChildrenPath(path, r) ==
    /\ path # <<>>
    /\ path[1] = r
    /\ \A i \in 1..(Len(path) - 1) : path[i + 1] \in nodes[path[i]].children
    /\ nodes[path[Len(path)]].children = {}
    /\ StepsFrom({r}, Len(path)) = {}

\* C9: in an acyclic graph, what get_longest_path returns for a root starts
\* with the root, each next element is a child of the one before, the last
\* has no children, and no children-only path from the root has more nodes.
C9_LongestPathIsLongest ==
    (pc = "done" /\ GraphAcyclic) =>
        \A r \in root_nodes :
            IsLongestChildrenPath(get_longest_path(r, nodes, << >>, 1).path, r)

\* A root whose longest path runs through a later child and a node that an
\* earlier child already put in the memo table.
C9_Witness ==
    /\ pc = "done" /\ GraphAcyclic
    /\ \E r \in root_nodes : \E c, d \in nodes[r].children :
         /\ c < d
         /\ c \in nodes[d].children
         /\ Len(get_longest_path(r, nodes, << >>, 1).path) >= 4

\* ---- C10

\* The schemes get_purl gives.
Schemes == {"generic"} \cup { SchemeTable[i].scheme : i \in 1..Len(SchemeTable) }

\* The value of the histogram h at the scheme, 0 when h does not hold it.
SchemeCount(h, scheme) == IF scheme \in DOMAIN h THEN h[scheme] ELSE 0

RECURSIVE SumOfCounts(_, _)
SumOfCounts(h, ks) ==
    IF ks = {} THEN 0
    ELSE LET k == CHOOSE x \in ks : TRUE
         IN h[k] + SumOfCounts(h, ks \ {k})

\* h counts, per scheme, the nodes that children edges lead to from the
\* roots, each once: its values sum to the number of these nodes and none is
\* 0; a node that only patch edges lead to is not among them.
IsHistogramOfChildrenClosure(h) ==
    /\ DOMAIN h \subseteq Schemes
    /\ \A scheme \in Schemes :
          SchemeCount(h, scheme) =
              Cardinality({ n \in ChildrenClosure(root_nodes, nodes) :
                              get_purl_scheme(nodes[n]).scheme = scheme })
    /\ \A scheme \in DOMAIN h : h[scheme] >= 1
    /\ SumOfCounts(h, DOMAIN h) = Cardinality(ChildrenClosure(root_nodes, nodes))

\* C10: on every graph built, with cycles or without, get_purl_scope_stats
\* returns the histogram of the nodes that children edges lead to from the
\* roots, each counted once and the nodes only patches lead to left out;
\* it is the histogram get_stats records.
C10_HistogramCountsChildrenClosure ==
    /\ GraphBuilt =>
          IsHistogramOfChildrenClosure(get_purl_scope_stats(nodes, root_nodes).response)
    /\ pc = "done" => IsHistogramOfChildrenClosure(stats.purl_scope_count)

\* A graph with a node that only a patch edge leads to, a node that two
\* nodes have as child, and three schemes in the histogram.
C10_Witness ==
    /\ pc = "done"
    /\ \E n \in DOMAIN nodes :
         /\ n \in Referenced
         /\ n \notin ChildrenClosure(root_nodes, nodes)
    /\ \E n, m \in DOMAIN nodes : n # m /\ nodes[n].children \cap nodes[m].children # {}
    /\ DOMAIN stats.purl_scope_count = {"generic", "cargo", "hackage"}

\* ---- C11

\* C11: every analytics traversal returns on every package graph, one whose
\* children edges hold a self-reference or a cycle included: neither the
\* reachable count nor the longest path of any node exhausts the stack, and
\* get_stats as a whole never ends in a stack overflow.
C11_TraversalsTerminate ==
    /\ pc # "stack_overflow"
    /\ GraphBuilt =>
          \A n \in DOMAIN nodes :
              /\ ~get_reachable_nodes_count(n, nodes, {}, 0).overflow
              /\ ~get_longest_path(n, nodes, << >>, 0).overflow

\* ---- C15

\* url is "mirror://<alias>/<rest>" for a key <alias> of MIRRORS.
IsAliasUrl(url) ==
    /\ Len(url) >= 3
    /\ url[1] = "mirror://"
    /\ url[2] \in DOMAIN MIRRORS
    /\ url[3] = "/"

\* The <rest> of "mirror://<alias>/<rest>".
RestOf(url) == SubSeq(url, 4, Len(url))

\* C15: for every key <alias> of MIRRORS and every <rest>,
\* translate_url("mirror://<alias>/<rest>") returns, without a panic, the
\* base the table has for <alias> followed by <rest>.
C15_AliasBecomesBase ==
    (IsAliasUrl(arg) /\ pc # "call") =>
        /\ pc # "panic"
        /\ ret[1] = MIRRORS[arg[2]] \o RestOf(arg)

\* ---- C16

\* C16: a url that does not start with "mirror://" is returned unchanged, and
\* for every url u on which translate_url succeeds, translate_url of the
\* result succeeds and returns the result again.
C16_UnchangedAndIdempotent ==
    /\ (~StartsWith(arg, <<"mirror://">>) /\ pc # "call") =>
          (pc # "panic" /\ ret[1] = arg)
    /\ Len(ret) = 1 => pc # "panic"
    /\ Len(ret) = 2 => ret[2] = ret[1]

\* ---- C17

\* url is "mirror://<alias>/<rest>": <alias> is what stands between the
\* "mirror://" and the first "/" after it, and is not empty.
RedirectorAlias(url) ==
    IF Len(url) >= 3 /\ url[1] = "mirror://"
    THEN LET slashes == { e \in 2..Len(url) :
                            url[e] = "/" \/ url[e] \in DOMAIN AfterLastSlash }
         IN IF slashes = {} THEN None
            ELSE LET e == CHOOSE x \in slashes : \A y \in slashes : x <= y
                 IN IF e >= 3 /\ url[e] = "/" THEN Some(SubSeq(url, 2, e - 1)) ELSE None
    ELSE None

\* url is "mirror://<alias>/<rest>" for an <alias> that is no key of MIRRORS.
IsUnknownAliasUrl(url) ==
    RedirectorAlias(url).some /\ ~MirrorKey(RedirectorAlias(url).val).some

\* C17: on every url "mirror://<alias>/<rest>" whose <alias> is not in the
\* table, translate_url panics: it never returns, so never returns the
\* mirror:// url unchanged.
C17_UnknownAliasFailsHard ==
    (IsUnknownAliasUrl(arg) /\ pc # "call") => (pc = "panic" /\ ret = << >>)

\* The part of C17 the code keeps: translate_url panics when the unknown
\* <alias> is spelled in the characters [0-9a-zA-Z_-] alone.
C17_UnknownWordAliasPanics ==
    (/\ IsUnknownAliasUrl(arg)
     /\ \A i \in 1..Len(RedirectorAlias(arg).val) : RedirectorAlias(arg).val[i] \in WordAtoms
     /\ pc # "call")
    => (pc = "panic" /\ ret = << >>)

\* translate_url panicked on "mirror://unknownmirror/x".
C17_UnknownWordAliasPanicked ==
    /\ arg = <<"mirror://", "unknownmirror", "/", "x">>
    /\ pc = "panic"
    /\ ret = << >>

\* translate_url returned "mirror://gnu.unknownmirror/x" as it was.
C17_PseudoUrlReturned ==
    /\ arg = <<"mirror://", "gnu", ".", "unknownmirror", "/", "x">>
    /\ pc # "call"
    /\ pc # "panic"
    /\ ret[1] = arg

\* ---- C12

\* get_purl returned a purl for the node.
PurlReturned == pc = "get_purl" /\ Len(ret) = 1

\* The name PackageNode::get_name returns for the node.
NodeName == PackageNode_get_name(arg).name

\* C12 as stated: the host of the purl is the name get_name returns, and it
\* is "unknown" exactly when get_name returns no name.
C12_HostUnknownExactlyWithoutName ==
    PurlReturned =>
        /\ NodeName.some => ret[1].host = NodeName.val
        /\ ret[1].host = <<"unknown">> <=> ~NodeName.some

\* C12, amended: the host of the purl is the name get_name returns when it
\* returns one, and "unknown" when it returns none.
C12_HostIsNameOrUnknown ==
    PurlReturned =>
        /\ NodeName.some => ret[1].host = NodeName.val
        /\ ~NodeName.some => ret[1].host = <<"unknown">>

\* A purl with the host "unknown" for a node that carries sources but has
\* no name.
C12_Witness ==
    /\ PurlReturned
    /\ ~NodeName.some
    /\ arg.sources # <<>>
    /\ ret[1].host = <<"unknown">>

\* ---- C13

\* The recipe of the node declares a url: it has `url` or `urls`.
DeclaresUrl == {"url", "urls"} \cap DOMAIN arg.main_derivation.env # {}

\* The first url the recipe declares, as written: the first piece of `url`,
\* of `urls` when there is no `url`.
FirstDeclaredUrl ==
    IF "url" \in DOMAIN arg.main_derivation.env
    THEN Head(Split(arg.main_derivation.env.url, SP))
    ELSE Head(Split(arg.main_derivation.env.urls, SP))

\* The scheme of the first entry of the table whose prefix the url starts
\* with, "generic" when there is none.
FirstMatchScheme(url) ==
    LET hits == { i \in 1..Len(SchemeTable) : StartsWith(url, SchemeTable[i].prefix) }
    IN IF hits = {} THEN "generic"
       ELSE SchemeTable[CHOOSE i \in hits : \A j \in hits : i <= j].scheme

\* C13: the scheme of the purl depends on the first download url only: it is
\* "generic" when the recipe declares no url or when no prefix of the table
\* matches, and else the scheme of the first entry of the table whose prefix
\* the first (translated) url starts with.
C13_SchemeIsOfFirstUrl ==
    PurlReturned =>
        ret[1].scheme = (IF DeclaresUrl
                         THEN FirstMatchScheme(translate_url(FirstDeclaredUrl).url)
                         ELSE "generic")

\* A cargo purl for a recipe whose `url` holds a crates.io url followed by
\* an npm one, and whose `urls` starts with a pypi url.
C13_Witness ==
    /\ PurlReturned
    /\ ret[1].scheme = "cargo"
    /\ "urls" \in DOMAIN arg.main_derivation.env
    /\ "url" \in DOMAIN arg.main_derivation.env
    /\ Len(Split(arg.main_derivation.env.url, SP)) = 2
    /\ arg.main_derivation.env.urls # <<>>

\* ---- C14

\* C14: whenever the recipe declares a url, the purl get_purl returns keeps
\* the first url, translated, as its "download_url" qualifier, whatever its
\* scheme.
C14_DownloadUrlIsFirstUrl ==
    (PurlReturned /\ DeclaresUrl) =>
        /\ "download_url" \in DOMAIN ret[1].query_params
        /\ ret[1].query_params.download_url = translate_url(FirstDeclaredUrl).url

\* A hackage purl whose download_url is the translation of the mirror:// url
\* the recipe declares.
C14_Witness ==
    /\ PurlReturned
    /\ DeclaresUrl
    /\ FirstDeclaredUrl = <<"mirror://", "hackage", "/", "x">>
    /\ ret[1].scheme = "hackage"
    /\ ret[1].query_params.download_url =
           <<"https://hackage.haskell.org", "/", "package", "/", "x">>

\* ---- C18

\* The env of the recipe of the node.
RecipeEnv == arg.main_derivation.env

\* s without one leading "v".
WithoutLeadingV(s) ==
    IF s # <<>> /\ s[1] = "v" THEN SubSeq(s, 2, Len(s)) ELSE s

\* C18: for a recipe whose env has `rev`, the version Derivation::get_version
\* returns is the `rev` without one leading "v", whatever the `version` and
\* the urls of the recipe are.
C18_RevDecidesVersion ==
    (pc = "recipe_get_version" /\ "rev" \in DOMAIN RecipeEnv) =>
        ret[1] = Some(WithoutLeadingV(RecipeEnv.rev))

\* The version "v1.5.5" for a recipe with the rev "vv1.5.5", the version
\* "2.12.1" and a url whose file name holds "2.12.1".
C18_Witness ==
    /\ pc = "recipe_get_version"
    /\ "rev" \in DOMAIN RecipeEnv
    /\ RecipeEnv.rev = <<"v", "v", "1.5.5">>
    /\ "version" \in DOMAIN RecipeEnv
    /\ RecipeEnv.version = <<"2.12.1">>
    /\ "url" \in DOMAIN RecipeEnv
    /\ RecipeEnv.url = GithubUrl
    /\ ret[1] = Some(<<"v", "1.5.5">>)

\* ---- C19

\* PackageNode::get_name returned for the node.
NameReturned == pc = "get_name" /\ Len(ret) = 1

\* C19 as stated: get_name returns the pname of the metadata when there is
\* metadata and its pname is not "source"; else the name of the metadata;
\* else the `pname` of the recipe; the weaker signals come only after these.
C19_MetadataNameUnconditional ==
    NameReturned =>
        IF arg.package.some /\ arg.package.val.pname # <<"source">>
        THEN ret[1] = Some(arg.package.val.pname)
        ELSE IF arg.package.some
             THEN ret[1] = Some(arg.package.val.name)
             ELSE "pname" \in DOMAIN RecipeEnv => ret[1] = Some(RecipeEnv.pname)

\* C19, amended: get_name returns the pname of the metadata when there is
\* metadata and its pname is not "source"; else the name of the metadata
\* when there is metadata and its name is not "source"; else the `pname` of
\* the recipe; the weaker signals come only after these.
C19_NameCascadeOrder ==
    NameReturned =>
        IF arg.package.some /\ arg.package.val.pname # <<"source">>
        THEN ret[1] = Some(arg.package.val.pname)
        ELSE IF arg.package.some /\ arg.package.val.name # <<"source">>
             THEN ret[1] = Some(arg.package.val.name)
             ELSE "pname" \in DOMAIN RecipeEnv => ret[1] = Some(RecipeEnv.pname)

\* The name "zstd" for a node without metadata whose recipe has the pname
\* "zstd" and the name "zstd-1.5.5".
C19_Witness ==
    /\ NameReturned
    /\ ~arg.package.some
    /\ "pname" \in DOMAIN RecipeEnv
    /\ RecipeEnv.pname = <<"zstd">>
    /\ "name" \in DOMAIN RecipeEnv
    /\ RecipeEnv.name = <<"zstd", "-", "1.5.5">>
    /\ ret[1] = Some(<<"zstd">>)

\* ---- C20

\* C20: for a recipe without `pname` whose `name` is "source",
\* Derivation::get_name never returns "source", whatever the `rev` and the
\* `version` are, the empty string included: the name comes from the urls,
\* or there is none.
C20_SourceIsNeverTheName ==
    (/\ pc = "recipe_get_name"
     /\ "pname" \notin DOMAIN RecipeEnv
     /\ "name" \in DOMAIN RecipeEnv
     /\ RecipeEnv.name = <<"source">>) =>
        /\ ret[1] # Some(<<"source">>)
        /\ ret[1] = NameFromUrls(get_urls(arg.main_derivation)).name

\* ---- C21

\* The version of the metadata the node carries, if it is not empty.
MetadataVersion ==
    IF arg.package.some /\ arg.package.val.version # <<>>
    THEN Some(arg.package.val.version)
    ELSE None

\* The version the `rev` (without one leading "v"), else the `version`, of
\* the recipe gives.
EnvVersion ==
    IF "rev" \in DOMAIN RecipeEnv THEN Some(WithoutLeadingV(RecipeEnv.rev))
    ELSE IF "version" \in DOMAIN RecipeEnv THEN Some(RecipeEnv.version)
    ELSE None

\* The commit or, without one, the semantic version in the file name of url.
FileVersion(url) ==
    LET f == LastSegment(url)
    IN IF \E i \in 1..Len(f) : f[i] \in ShaAtoms
       THEN Some(<<f[CHOOSE i \in 1..Len(f) :
                       f[i] \in ShaAtoms /\ \A j \in 1..(i - 1) : f[j] \notin ShaAtoms]>>)
       ELSE IF \E i \in 1..Len(f) : f[i] \in SemverAtoms
            THEN Some(<<f[CHOOSE i \in 1..Len(f) :
                            f[i] \in SemverAtoms /\ \A j \in 1..(i - 1) : f[j] \notin SemverAtoms]>>)
            ELSE None

\* What the first of the (translated) urls of the recipe whose file name
\* holds a version gives.
UrlVersion ==
    LET us == get_urls(arg.main_derivation).urls
        hits == { i \in 1..Len(us) : FileVersion(us[i]).some }
    IN IF hits = {} THEN None
       ELSE FileVersion(us[CHOOSE i \in hits : \A j \in hits : i <= j])

\* C21 as stated: the version of a node follows the cascade of the recipe;
\* for a node whose recipe has a `rev` or a `version`, PackageNode's
\* get_version and the version of the purl are that value, even when the
\* metadata of the node carries another version.
C21_RecipeVersionBeatsMetadata ==
    ((pc = "get_version" \/ PurlReturned) /\ EnvVersion.some) =>
        /\ pc = "get_version" => ret[1] = EnvVersion
        /\ PurlReturned => ret[1].version = EnvVersion

\* C21, amended: PackageNode's get_version returns the version of the
\* metadata when the node carries metadata with a version that is not empty,
\* and nothing otherwise; the version of the purl is that version of the
\* metadata when there is one, and only without it follows the cascade of
\* the recipe: rev (leading v stripped), then `version`, then the urls, then
\* the name without the pname prefix.
C21_MetadataVersionThenCascade ==
    /\ pc = "get_version" => ret[1] = MetadataVersion
    /\ PurlReturned =>
          ret[1].version =
              IF MetadataVersion.some THEN MetadataVersion
              ELSE IF EnvVersion.some THEN EnvVersion
              ELSE IF UrlVersion.some THEN UrlVersion
              ELSE VersionFromName(arg.main_derivation)

\* A purl with the version "9.9" of the metadata for a node whose recipe has
\* the rev "v1.5.5" and the version "2.12.1".
C21_Witness ==
    /\ PurlReturned
    /\ MetadataVersion = Some(<<"9.9">>)
    /\ "rev" \in DOMAIN RecipeEnv /\ RecipeEnv.rev = <<"v", "1.5.5">>
    /\ "version" \in DOMAIN RecipeEnv /\ RecipeEnv.version = <<"2.12.1">>
    /\ ret[1].version = Some(<<"9.9">>)

\* ---- C26

RECURSIVE PatchEntries(_, _)
\* The number of patch entries of the nodes ns of the graph.
PatchEntries(package_nodes, ns) ==
    IF ns = {} THEN 0
    ELSE LET n == CHOOSE x \in ns : TRUE
         IN Cardinality(package_nodes[n].patches) + PatchEntries(package_nodes, ns \ {n})

\* C26: what get_stats returns has the number of nodes as nodes_count, the
\* number of roots as root_nodes_count, the number of patch entries of the
\* nodes as patches_count, and the number of nodes that carry metadata as
\* package_meta_count.
C26_StatsCountPatchesAndMetadata ==
    pc = "done" =>
        /\ stats.nodes_count = Cardinality(DOMAIN nodes)
        /\ stats.root_nodes_count = Cardinality(root_nodes)
        /\ stats.patches_count = PatchEntries(nodes, DOMAIN nodes)
        /\ stats.package_meta_count =
               Cardinality({ n \in DOMAIN nodes : nodes[n].package.some })

\* ---- C27

\* The sum of the reachable counts get_stats recorded for the roots.
SumOfReachableCounts ==
    SumOfCounts(stats.reachable_nodes_count, DOMAIN stats.reachable_nodes_count)

\* Some node is reachable, along children edges, from two roots.
RootsOverlap ==
    \E r1, r2 \in root_nodes :
        /\ r1 # r2
        /\ ChildrenClosure({r1}, nodes) \cap ChildrenClosure({r2}, nodes) # {}

\* C27 as stated: the roots share one visited set, so a node reachable from
\* several roots is counted for one of them only: the per-root reachable
\* counts sum to the number of distinct nodes reachable from any root.
C27_CountsSumToDistinctReachable ==
    pc = "done" =>
        SumOfReachableCounts = Cardinality(ChildrenClosure(root_nodes, nodes))

\* C27, amended: every root gets a visited set of its own, so a node
\* reachable from several roots is counted for each of them: the reachable
\* count of every root is the number of distinct nodes reachable from that
\* root, and the counts sum to the number of distinct nodes reachable from
\* any root exactly when no node is reachable from two roots.
C27_EachRootCountsItsOwnClosure ==
    pc = "done" =>
        /\ DOMAIN stats.reachable_nodes_count = root_nodes
        /\ \A r \in root_nodes :
              stats.reachable_nodes_count[r] = Cardinality(ChildrenClosure({r}, nodes))
        /\ SumOfReachableCounts >= Cardinality(ChildrenClosure(root_nodes, nodes))
        /\ (SumOfReachableCounts = Cardinality(ChildrenClosure(root_nodes, nodes)))
              <=> ~RootsOverlap

\* Two roots with a common child: the counts sum to more than the number of
\* nodes reachable.
C27_Witness ==
    /\ pc = "done"
    /\ \E r1, r2 \in root_nodes :
         r1 # r2 /\ nodes[r1].children \cap nodes[r2].children # {}
    /\ SumOfReachableCounts > Cardinality(ChildrenClosure(root_nodes, nodes))

\* ---- C29

\* C29: for every key <alias> of MIRRORS, what translate_url returns for
\* "mirror://<alias>/<rest>" starts with the base of the alias, and whatever
\* follows the base is parted from it by a "/": the one the base ends with,
\* or one right after it.
C29_SlashAfterEveryBase ==
    (IsAliasUrl(arg) /\ Len(ret) >= 1) =>
        /\ StartsWith(ret[1], MIRRORS[arg[2]])
        /\ Len(ret[1]) > Len(MIRRORS[arg[2]]) =>
              \/ MIRRORS[arg[2]][Len(MIRRORS[arg[2]])] = "/"
              \/ ret[1][Len(MIRRORS[arg[2]]) + 1] = "/"

\* ---- C30

RECURSIVE InputsClosure(_)
\* The least set of paths that holds S and the inputs of its members.
InputsClosure(S) ==
    LET T == S \cup UNION { derivations[p].input_derivations : p \in S \cap DOMAIN derivations }
    IN IF T = S THEN S ELSE InputsClosure(T)

\* The recipe at p lies on a cycle of input references (one that lists
\* itself as input does).
OnReferenceCycle(p) == p \in InputsClosure(derivations[p].input_derivations)

RECURSIVE EdgesClosure(_)
\* The least set of paths that holds S and the children and the patches of
\* its members.
EdgesClosure(S) ==
    LET T == S \cup UNION { nodes[n].children \cup nodes[n].patches : n \in S \cap DOMAIN nodes }
    IN IF T = S THEN S ELSE EdgesClosure(T)

\* C30: the graph built from a store that is not empty, whose inputs all
\* exist and form no cycle, has a root, and children and patches edges lead
\* from the roots to every node; the graph built from a store all of whose
\* recipes lie on a reference cycle has no root, and get_stats returns for
\* it without an entry for any root.
C30_RootsOfAcyclicAndCyclicStores ==
    /\ (/\ GraphBuilt
        /\ StoreClosed
        /\ DOMAIN derivations # {}
        /\ \A p \in DOMAIN derivations : ~OnReferenceCycle(p)) =>
            /\ root_nodes # {}
            /\ root_nodes \subseteq DOMAIN nodes
            /\ EdgesClosure(root_nodes) = DOMAIN nodes
            /\ DOMAIN nodes = DOMAIN derivations
    /\ (GraphBuilt /\ \A p \in DOMAIN derivations : OnReferenceCycle(p)) =>
            /\ root_nodes = {}
            /\ pc \in {"built", "done"}
            /\ pc = "done" =>
                  /\ stats.reachable_nodes_count = << >>
                  /\ stats.longest_path_length = << >>
                  /\ stats.purl_scope_count = << >>

\* The graph of an acyclic store of NumPaths recipes with two roots, one of
\* them leading to the third node by a patch edge only.
C30_Witness ==
    /\ GraphBuilt /\ StoreClosed
    /\ \A p \in DOMAIN derivations : ~OnReferenceCycle(p)
    /\ Cardinality(DOMAIN nodes) = NumPaths
    /\ Cardinality(root_nodes) = 2
    /\ \E r \in root_nodes : nodes[r].patches # {} /\ nodes[r].children = {}

\* get_stats returned for the graph of a store whose recipes all lie on a
\* cycle, one of them on its own.
C30_CyclicStoreReached ==
    /\ pc = "done"
    /\ Cardinality(DOMAIN derivations) = NumPaths
    /\ \A p \in DOMAIN derivations : OnReferenceCycle(p)
    /\ \E p \in DOMAIN derivations : p \in derivations[p].input_derivations

\* ---- C22

\* The name Derivation::get_name infers for the recipe of the node at n.
RecipeName(n) ==
    IF Derivation_get_name(nodes[n].main_derivation).panicked THEN None
    ELSE Derivation_get_name(nodes[n].main_derivation).name

\* The metadata index has an entry under the name of the recipe of n.
NameMatched(n) == RecipeName(n).some /\ RecipeName(n).val \in DOMAIN packages

\* C22 as stated: in every graph, while it is built and after, a node
\* carries metadata exactly when the index has an entry under the name of
\* its recipe, and the metadata it carries is that entry.
C22_MetadataIffNameMatched ==
    \A n \in DOMAIN nodes :
        /\ nodes[n].package.some <=> NameMatched(n)
        /\ nodes[n].package.some => nodes[n].package.val = packages[RecipeName(n).val]

\* C22, amended: a node carries metadata only if the index has an entry
\* under the name of its recipe, and the metadata it carries is that entry;
\* get_package_graph attaches the entry whenever there is one, and
\* get_package_graph_next attaches none.
C22_MetadataOnlyIfNameMatched ==
    /\ \A n \in DOMAIN nodes :
          nodes[n].package.some =>
              /\ NameMatched(n)
              /\ nodes[n].package.val = packages[RecipeName(n).val]
    /\ pc = "legacy_nodes" =>
          \A n \in DOMAIN nodes : NameMatched(n) => nodes[n].package.some
    /\ pc = "nodes" =>
          \A n \in DOMAIN nodes : ~nodes[n].package.some

\* get_package_graph is about to return a graph with a node that carries
\* the entry "hello" of the index, whose pname is "zlib", and a node of a
\* recipe whose name the index does not have.
C22_Witness ==
    /\ pc = "legacy_nodes" /\ todo = {} /\ current_node = None
    /\ \E n \in DOMAIN nodes :
         /\ RecipeName(n) = Some(<<"hello">>)
         /\ nodes[n].package = Some(Package(<<"zlib">>, <<"hello">>, <<"9.9">>, {"broken", "unfree"}))
    /\ \E n \in DOMAIN nodes : ~NameMatched(n) /\ ~nodes[n].package.some
\* ---------------------------------------------------------------------------
\* C23

\* Name and version inference find nothing in the recipe (its purl is then
\* the generic one of host "unknown"), and none of its urls panics.
InferenceExhausted(derivation) ==
    /\ ~get_urls(derivation).panicked
    /\ ~Derivation_get_name(derivation).name.some
    /\ ~Derivation_get_version(derivation).version.some

\* The store gives the run no other reason to stop: every input is in the
\* store, no recipe names an unknown mirror, and no recipe lies on a cycle
\* of input references.
StoreSound ==
    /\ StoreClosed
    /\ \A p \in DOMAIN derivations :
         ~get_urls(derivations[p]).panicked /\ ~OnReferenceCycle(p)

\* A builder returned a graph, whatever was done with it since.
GraphReturned == pc \in {"built", "done", "printed", "print_panic", "stack_overflow",
                         "stats_panic"}

\* C23: an inference miss never surfaces as an error.  On a sound store that
\* holds a recipe for which name and version inference exhaust all signals,
\* the builder does not panic, the graph it returns has a node for every
\* such recipe, get_purl returns on that node, and neither get_stats nor
\* pretty_print ends in a panic or a stack overflow.
C23_InferenceMissNeverSurfaces ==
    (StoreSound /\ \E p \in DOMAIN derivations : InferenceExhausted(derivations[p]))
      => /\ pc \notin {"panic", "print_panic", "stats_panic", "stack_overflow"}
         /\ GraphReturned =>
              \A p \in DOMAIN derivations :
                InferenceExhausted(derivations[p]) =>
                  p \in DOMAIN nodes /\ ~get_purl(nodes[p]).panicked

\* A sound store with an exhausted recipe for which get_package_graph
\* returned a graph without a node for it.
C23_NoNodeForNamelessRecipe ==
    /\ StoreSound
    /\ pc = "built"
    /\ packages # << >>
    /\ \E p \in DOMAIN derivations :
         InferenceExhausted(derivations[p]) /\ p \notin DOMAIN nodes

\* A sound store on whose graph pretty_print panicked at a node of an
\* exhausted recipe, under the options of Format::PrettyPrint.
C23_PrettyPrintPanicsOnNamelessNode ==
    /\ StoreSound
    /\ pc = "print_panic"
    /\ arg = Some(DisplayOptions(FALSE, TRUE, Some(1)))
    /\ \E p \in DOMAIN nodes : InferenceExhausted(nodes[p].main_derivation)

\* ---------------------------------------------------------------------------
\* C25

\* The node at the path is an inline script.
InlineScriptNode(p) == p \in DOMAIN nodes /\ is_inline_script(nodes[p].main_derivation)

\* The paths of the nodes that the output at hand presents as packages: the
\* purl lines of pretty_print, the components of the CycloneDX document,
\* the packages of the SPDX document, the packages of the native document.
EmittedPackages ==
    IF pc = "printed"
    THEN { ret[1].lines[i].node :
             i \in { j \in DOMAIN ret[1].lines : ret[1].lines[j].kind = "purl" } }
    ELSE IF pc = "cyclonedx_dumped"
    THEN { ret[1].entries[i].bom_ref :
             i \in { j \in DOMAIN ret[1].entries : ret[1].entries[j].kind = "component" } }
    ELSE IF pc = "spdx_dumped"
    THEN { ret[1].entries[i].spdxid :
             i \in { j \in DOMAIN ret[1].entries : ret[1].entries[j].kind = "package" } }
    ELSE IF pc = "native_dumped"
    THEN { ret[1].entries[i].id : i \in DOMAIN ret[1].entries }
    ELSE {}

\* C25: a node whose recipe has a `text` key is never emitted as a package
\* or component: no purl line of pretty_print, no CycloneDX component, no
\* SPDX package and no native package is that of an inline script.
C25_InlineScriptsNeverEmitted ==
    \A p \in EmittedPackages : ~InlineScriptNode(p)

\* The part of C25 that holds: pretty_print and the CycloneDX dump leave
\* the inline scripts out.
C25_PrettyPrintAndCycloneDxExcludeScripts ==
    pc \in {"printed", "cyclonedx_dumped"} =>
        \A p \in EmittedPackages : ~InlineScriptNode(p)

\* A graph with an inline script and another node, printed and dumped to
\* CycloneDX with the other node emitted.
C25_ScriptLeftOut ==
    /\ pc \in {"printed", "cyclonedx_dumped"}
    /\ EmittedPackages # {}
    /\ \E p \in DOMAIN nodes : InlineScriptNode(p)

\* An SPDX document with an inline script among its packages.
C25_SpdxEmitsScript ==
    /\ pc = "spdx_dumped"
    /\ \E p \in EmittedPackages : InlineScriptNode(p)

\* ---------------------------------------------------------------------------
\* C28

\* The number of inputs classified into the node: its children, its patches
\* and its sources.
NodeEntries(node) ==
    Cardinality(node.children) + Cardinality(node.patches) + Len(node.sources)

\* The paths classified into the node are among the visited ones, and none
\* is entered twice: children and patches are disjoint, and the sources are
\* the recipes of distinct visited paths that are neither.
EnteredOnce(node, visited) ==
    /\ node.children \cup node.patches \subseteq visited
    /\ node.children \cap node.patches = {}
    /\ \A i, j \in DOMAIN node.sources : node.sources[i] = node.sources[j] => i = j
    /\ \A i \in DOMAIN node.sources :
         \E x \in visited \ (node.children \cup node.patches) :
           x \in DOMAIN derivations /\ derivations[x] = node.sources[i]
    /\ NodeEntries(node) <= Cardinality(visited)

\* Every step of the traversal leaves the node under way with each input
\* entered once.
ClassifiedOnce ==
    (pc' = "legacy_nodes" /\ current_node'.some)
      => EnteredOnce(current_node'.val.node, visited_derivations')

\* A step that classifies an input into the node under way takes it off the
\* worklist, finds it unvisited, marks it visited, and adds one entry.
ClassifyingStep ==
    (/\ current_node.some
     /\ current_node'.some
     /\ current_node'.val.node # current_node.val.node)
      => /\ current_node'.val.path = current_node.val.path
         /\ \E x \in child_derivation_paths \ visited_derivations :
              visited_derivations' = visited_derivations \cup {x}
         /\ NodeEntries(current_node'.val.node) = NodeEntries(current_node.val.node) + 1

\* A step of the builder changes the graph only by adding the node under
\* way, at a path that had none, as it follows from its own recipe; the
\* nodes built before stay as they are.
NodesIndependent ==
    (pc = "legacy_nodes" /\ nodes' # nodes)
      => /\ current_node.some
         /\ current_node.val.path \notin DOMAIN nodes
         /\ DOMAIN nodes' = DOMAIN nodes \cup {current_node.val.path}
         /\ \A p \in DOMAIN nodes : nodes'[p] = nodes[p]
         /\ nodes'[current_node.val.path] = NodeAlone(current_node.val.path)

\* The safety half of C28.
WorklistSafety ==
    /\ [][ClassifiedOnce]_vars
    /\ [][ClassifyingStep]_vars
    /\ [][NodesIndependent]_vars

\* C28, as claimed: in the worklist traversal of get_package_graph each
\* referenced recipe is classified at most once for the node, building a
\* node neither depends on nor changes another node, and on every store the
\* worklist of a node eventually empties.
C28_WorklistAlwaysEmpties ==
    /\ WorklistSafety
    /\ (current_node.some ~> child_derivation_paths = {})

\* The part of C28 the code keeps: each referenced recipe is classified at
\* most once, nodes are built alone, and the worklist empties on every store
\* on which the builder does not panic, reference cycles included.
C28_WorklistEmptiesUnlessAborted ==
    /\ WorklistSafety
    /\ (current_node.some ~> (child_derivation_paths = {} \/ pc = "panic"))

\* A node under way with an entry classified, whose worklist yields next a
\* recipe on a reference cycle that was visited already.
C28_Witness ==
    /\ pc = "legacy_nodes"
    /\ current_node.some
    /\ NodeEntries(current_node.val.node) >= 1
    /\ child_derivation_paths # {}
    /\ PopLast(child_derivation_paths) \in visited_derivations
    /\ PopLast(child_derivation_paths) \in DOMAIN derivations
    /\ OnReferenceCycle(PopLast(child_derivation_paths))

\* A node finished on a store with a reference cycle among its inputs.
C28_CycleTraversed ==
    /\ pc = "built"
    /\ \E p \in DOMAIN nodes :
         /\ NodeEntries(nodes[p]) >= 1
         /\ \E q \in InputsClosure(derivations[p].input_derivations) \cap DOMAIN derivations :
              OnReferenceCycle(q)

\* ---------------------------------------------------------------------------
\* C24

\* The run is over.
RunEnded == pc \in {"exit_success", "exit_failure", "main_err", "panic"}

\* The run has written to standard output.
SbomPrinted == \E i \in DOMAIN ret : ret[i].stream = "stdout"

\* An external loader the run calls on failed, or returned what does not
\* parse: `nix derivation show`, and (with --meta) the read of the metadata
\* file or `nix-env`.
LoaderFailed(output) == ~output.spawned \/ ~output.success \/ ~output.stdout.some
RecipeLoaderFailed ==
    (arg.val.nix_ref \/ arg.val.current_system) /\ LoaderFailed(arg.val.nix)
MetadataLoaderFailed ==
    /\ arg.val.meta
    /\ IF arg.val.metadata_path
       THEN ~arg.val.metadata.spawned \/ ~arg.val.metadata.stdout.some
       ELSE LoaderFailed(arg.val.metadata)

\* The SBOM is written last, and only after the recipes were loaded, the
\* metadata loaded, the graph built over every recipe and its dump returned.
PrintedAfterAll ==
    SbomPrinted =>
      /\ pc = "exit_success"
      /\ ret[Len(ret)].stream = "stdout"
      /\ Cardinality({ i \in DOMAIN ret : ret[i].stream = "stdout" }) = 1
      /\ arg.val.nix.stdout.some /\ derivations = arg.val.nix.stdout.val
      /\ arg.val.meta => arg.val.metadata.stdout.some /\ packages \in ReIndexed(arg.val.metadata.stdout.val)
      /\ DOMAIN nodes = DOMAIN derivations
      /\ arg.val.transform_ok

\* C24: a run has no partial-graph mode.  The SBOM is written to standard
\* output only after recipe loading, metadata loading, graph building and
\* dumping have all succeeded; and a run whose recipe loader or metadata
\* loader fails or returns unparsable data ends in a failure with no SBOM
\* printed.
C24_NoPartialGraphMode ==
    /\ PrintedAfterAll
    /\ (RunEnded /\ (RecipeLoaderFailed \/ MetadataLoaderFailed))
         => pc # "exit_success" /\ ~SbomPrinted

\* The part of C24 that holds: the SBOM is printed last and after all the
\* steps, and a run ends in a failure with no SBOM when a loader returns an
\* error (the command cannot be started, the file cannot be read, `nix`
\* fails, the output does not parse).
C24_LoaderErrorAborts ==
    /\ PrintedAfterAll
    /\ (RunEnded /\ (\/ RecipeLoaderFailed
                     \/ (MetadataLoaderFailed /\ ~arg.val.metadata.stdout.some)
                     \/ (MetadataLoaderFailed /\ ~arg.val.metadata.spawned)))
         => pc # "exit_success" /\ ~SbomPrinted

\* A run that printed an SBOM although `nix-env` failed.
C24_PrintedAfterFailedNixEnv ==
    /\ pc = "exit_success"
    /\ SbomPrinted
    /\ arg.val.meta /\ ~arg.val.metadata_path
    /\ ~arg.val.metadata.success

\* A run that ended in an error of the metadata loader, and one that
\* printed the SBOM of a store of two recipes.
C24_LoaderErrorReached ==
    pc = "main_err" /\ derivations # << >> /\ MetadataLoaderFailed /\ nodes = << >>
C24_SbomReached ==
    pc = "exit_success" /\ SbomPrinted /\ Cardinality(DOMAIN nodes) = 2 /\ arg.val.meta

====
